---------------------------- MODULE Spec2Model ----------------------------
(***************************************************************************)
(* Shared-memory object model of wasm-wasi-kit (common/sharedObject.ts):   *)
(* the Lock and Signal primitives over one 32-bit cell each, the           *)
(* runLocked wrappers built on Lock, and the agents that use them.         *)
(*                                                                         *)
(* Every Atomics operation is one step; the assignments to a Lock          *)
(* object's own (agent-local) lockCount are folded into the atomic step    *)
(* that precedes them in program order.                                    *)
(***************************************************************************)
EXTENDS Integers, Sequences, FiniteSets, TLC

\* ---------------------------------------------------------------- bounds
NumAgents == 2      \* agents that share the Lock cell
MaxRounds == 2      \* runLocked calls per agent (nested ones included)
MaxDepth == 2       \* nesting depth of runLocked inside a callback
MaxCell == 2        \* release() is not called while the Lock cell is at this value
NumSigAgents == 2   \* agents that share the Signal cell
MaxResolves == 2    \* resolve() calls in a run
MaxNotify == 1      \* largest explicit agentsToNotify passed to resolve()
BufLen == 20        \* buffer.byteLength of the arena
MaxAllocs == 1      \* allocations that return a range, in a run
MaxWrites == 1      \* operations that write bytes of the buffer (copies, stores), in a run
MaxFields == 3      \* properties of a Record.Type

Agents == 1 .. NumAgents

SigAgents == 1 .. NumSigAgents

\* Atomics.notify's count for an undefined agentsToNotify is +Infinity: here a
\* number above any number of waiters (one sync and one async per agent).
Infinity == 2 * NumSigAgents + 1

Counts == (1 .. MaxNotify) \cup {Infinity}

VARIABLES
    cell,           \* Lock: the shared Int32 cell (buffer[0])
    lockCount,      \* Lock: each agent's Lock object's private lockCount
    pc,             \* each agent's position in runLocked/acquire/release
    val,            \* Lock.acquire: the local `value`
    lockWaiters,    \* agents suspended in Atomics.wait on the Lock cell, FIFO
    counter,        \* the shared counter the callbacks increment
    tmp,            \* callback: the counter value it read
    frames,         \* per agent, the stack of runLocked activations
    exc,            \* per agent, an exception is propagating
    rounds,         \* per agent, runLocked calls started
    done,           \* per agent, increments written
    net,            \* per agent, the sum of its own changes to the cell
    sig,            \* Signal: the shared Int32 cell (buffer[0])
    sigWaiters,     \* waiters on the Signal cell, FIFO: <<agent, "sync" | "async">>
    spc,            \* each agent's position in a Signal operation
    sres,           \* Signal.wait / waitAsync: the result of the atomic wait
    prom,           \* per agent, the state of the promise waitAsync returned
    rcount,         \* Signal.resolve: its argument agentsToNotify
    rwoke,          \* Signal.resolve: the number of waiters its notify woke
    ires,           \* Signal.isResolved: the value it returns
    nStores,        \* the number of Atomics.store(buffer, 0, 1) executed so far
    acc,            \* Synchronize: per agent, the trap (get, set) in progress
    mem,            \* SharedMemory: the bytes of each arena's buffer
    res,            \* the last memory operation: its inputs and its outcome
    nAllocs,        \* the number of allocations that returned a range
    nWrites,        \* the number of copies and stores executed
    rec,            \* the Record.Type constructed: its property list and the outcome
    other,          \* Lock: per agent, the lockCount of the Lock object it has set aside
    ctor,           \* the last Lock and the last Signal constructed: arguments, whether it stored
    ret             \* Synchronize: the last trap that returned without the lock

lockVars == <<cell, lockCount, pc, val, lockWaiters, counter, tmp, frames,
              exc, rounds, done, net>>

sigVars == <<sig, sigWaiters, spc, sres, prom, rcount, rwoke, ires, nStores>>

\* The access a Synchronize wrapper is making for each agent.
syncVars == <<acc>>

\* The arenas, the outcome of the last memory operation, the numbers of
\* successful allocations and of writes, and the record type constructed.
memVars == <<mem, res, nAllocs, nWrites, rec>>

\* An agent's second Lock object over the same cell, the last constructor
\* call, and what the last trap that did not take the lock handed back.
objVars == <<other, ctor, ret>>

vars == <<lockVars, sigVars, syncVars, memVars, objVars>>

\* ------------------------------------------------------------ the Lock
\* new Lock(memory): Atomics.store(buffer, 0, 1); lockCount = 0.
LockInit ==
    /\ cell = 1
    /\ lockCount = [a \in Agents |-> 0]
    /\ lockWaiters = <<>>

Top(a) == frames[a][Len(frames[a])]

Pop(s) == SubSeq(s, 1, Len(s) - 1)

\* runLocked(callback): the activation records what the caller saw on entry.
EnterRunLocked(a) ==
    /\ pc[a] \in {"idle", "body"}
    /\ rounds[a] < MaxRounds
    /\ Len(frames[a]) < MaxDepth
    /\ frames' = [frames EXCEPT ![a] = Append(@,
           [lc |-> lockCount[a], cell |-> cell, net |-> net[a]])]
    /\ rounds' = [rounds EXCEPT ![a] = @ + 1]
    /\ pc' = [pc EXCEPT ![a] = "acq"]
    /\ UNCHANGED <<cell, lockCount, val, lockWaiters, counter, tmp, exc, done, net,
                 sigVars, syncVars, memVars, objVars>>

\* SharedObject.runLocked: this.acquireLock(); try { callback } finally { releaseLock }
SharedObject_runLocked(a) == EnterRunLocked(a)

\* Synchronize(...).runLocked: lock.acquire(); try { callback } finally { lock.release() }
Synchronize_runLocked(a) == EnterRunLocked(a)

\* Mutant of AcquireReentrant: the `lockCount > 0` shortcut is missing, a holder
\* goes into the load/compare-exchange loop like anybody else.
AcquireReentrantMissing(a) ==
    /\ pc[a] = "acq"
    /\ lockCount[a] > 0
    /\ val' = [val EXCEPT ![a] = cell]
    /\ pc' = [pc EXCEPT ![a] = "cas"]
    /\ UNCHANGED <<cell, lockCount, lockWaiters, counter, tmp, frames, exc, rounds, done, net,
                 sigVars, syncVars, memVars, objVars>>

\* Lock.acquire, `if (this.lockCount > 0) { this.lockCount++; return; }`
AcquireReentrant(a) ==
    /\ pc[a] = "acq"
    /\ lockCount[a] > 0
    /\ lockCount' = [lockCount EXCEPT ![a] = @ + 1]
    /\ pc' = [pc EXCEPT ![a] = "body"]
    /\ UNCHANGED <<cell, val, lockWaiters, counter, tmp, frames, exc, rounds, done, net,
                 sigVars, syncVars, memVars, objVars>>

\* Lock.acquire, `const value = Atomics.load(this.buffer, 0)` at the loop head
AcquireLoad(a) ==
    /\ pc[a] \in {"acq", "load"}
    /\ pc[a] = "acq" => lockCount[a] = 0
    /\ val' = [val EXCEPT ![a] = cell]
    /\ pc' = [pc EXCEPT ![a] = "cas"]
    /\ UNCHANGED <<cell, lockCount, lockWaiters, counter, tmp, frames, exc, rounds, done, net,
                 sigVars, syncVars, memVars, objVars>>

\* Mutant of AcquireCAS: Atomics.store(buffer, 0, value - 1) in place of the
\* compare-exchange.
AcquireCASStore(a) ==
    /\ pc[a] = "cas"
    /\ IF val[a] > 0
       THEN /\ cell' = val[a] - 1
            /\ lockCount' = [lockCount EXCEPT ![a] = 1]
            /\ net' = [net EXCEPT ![a] = @ + (val[a] - 1 - cell)]
            /\ val' = [val EXCEPT ![a] = 0]
            /\ pc' = [pc EXCEPT ![a] = "body"]
       ELSE /\ pc' = [pc EXCEPT ![a] = "wait"]
            /\ UNCHANGED <<cell, lockCount, net, val>>
    /\ UNCHANGED <<lockWaiters, counter, tmp, frames, exc, rounds, done,
                 sigVars, syncVars, memVars, objVars>>

\* Mutant of AcquireCAS: the test reads `value >= 0`.
AcquireCASAllowsZero(a) ==
    /\ pc[a] = "cas"
    /\ IF val[a] >= 0 /\ cell = val[a]
       THEN /\ cell' = val[a] - 1
            /\ lockCount' = [lockCount EXCEPT ![a] = 1]
            /\ net' = [net EXCEPT ![a] = @ - 1]
            /\ val' = [val EXCEPT ![a] = 0]
            /\ pc' = [pc EXCEPT ![a] = "body"]
       ELSE /\ pc' = [pc EXCEPT ![a] = "wait"]
            /\ UNCHANGED <<cell, lockCount, net, val>>
    /\ UNCHANGED <<lockWaiters, counter, tmp, frames, exc, rounds, done,
                 sigVars, syncVars, memVars, objVars>>

\* Mutant of AcquireCAS: Atomics.sub(buffer, 0, 1) in place of the
\* compare-exchange, whatever the cell holds by then.
AcquireCASSub(a) ==
    /\ pc[a] = "cas"
    /\ IF val[a] > 0
       THEN /\ cell' = cell - 1
            /\ lockCount' = [lockCount EXCEPT ![a] = 1]
            /\ net' = [net EXCEPT ![a] = @ - 1]
            /\ val' = [val EXCEPT ![a] = 0]
            /\ pc' = [pc EXCEPT ![a] = "body"]
       ELSE /\ pc' = [pc EXCEPT ![a] = "wait"]
            /\ UNCHANGED <<cell, lockCount, net, val>>
    /\ UNCHANGED <<lockWaiters, counter, tmp, frames, exc, rounds, done,
                 sigVars, syncVars, memVars, objVars>>

\* Mutant of AcquireCAS: the compare-exchange writes `value` back, not
\* `value - 1`: the acquirer takes no unit out of the cell.
AcquireCASKeepsCell(a) ==
    /\ pc[a] = "cas"
    /\ IF val[a] > 0 /\ cell = val[a]
       THEN /\ lockCount' = [lockCount EXCEPT ![a] = 1]
            /\ val' = [val EXCEPT ![a] = 0]
            /\ pc' = [pc EXCEPT ![a] = "body"]
            /\ UNCHANGED <<cell, net>>
       ELSE /\ pc' = [pc EXCEPT ![a] = "wait"]
            /\ UNCHANGED <<cell, lockCount, net, val>>
    /\ UNCHANGED <<lockWaiters, counter, tmp, frames, exc, rounds, done,
                 sigVars, syncVars, memVars, objVars>>

\* Lock.acquire, `value > 0 && Atomics.compareExchange(buffer, 0, value, value - 1) === value`
\* and, on success, `this.lockCount = 1; return` (the local `value` dies with the call).
AcquireCAS(a) ==
    /\ pc[a] = "cas"
    /\ IF val[a] > 0 /\ cell = val[a]
       THEN /\ cell' = val[a] - 1
            /\ lockCount' = [lockCount EXCEPT ![a] = 1]
            /\ net' = [net EXCEPT ![a] = @ - 1]
            /\ val' = [val EXCEPT ![a] = 0]
            /\ pc' = [pc EXCEPT ![a] = "body"]
       ELSE /\ pc' = [pc EXCEPT ![a] = "wait"]
            /\ UNCHANGED <<cell, lockCount, net, val>>
    /\ UNCHANGED <<lockWaiters, counter, tmp, frames, exc, rounds, done,
                 sigVars, syncVars, memVars, objVars>>

\* Lock.acquire, `Atomics.wait(this.buffer, 0, value)`: suspends while the cell
\* still holds `value`, returns "not-equal" at once otherwise; the result is
\* not looked at and the loop goes round.
AcquireWait(a) ==
    /\ pc[a] = "wait"
    /\ IF cell = val[a]
       THEN /\ lockWaiters' = Append(lockWaiters, a)
            /\ pc' = [pc EXCEPT ![a] = "blocked"]
       ELSE /\ pc' = [pc EXCEPT ![a] = "load"]
            /\ UNCHANGED lockWaiters
    /\ UNCHANGED <<cell, lockCount, val, counter, tmp, frames, exc, rounds, done, net,
                 sigVars, syncVars, memVars, objVars>>

\* The waiters queue without the entry x.
Without(queue, x) == SelectSeq(queue, LAMBDA y : y # x)

\* Lock.acquire, `Atomics.wait(this.buffer, 0, value)` returning "timed-out"
\* to a suspended agent (the primitive breaking its contract: no timeout is
\* passed).
AcquireWaitTimesOut(a) ==
    /\ pc[a] = "blocked"
    /\ lockWaiters' = Without(lockWaiters, a)
    /\ pc' = [pc EXCEPT ![a] = "timedout"]
    /\ UNCHANGED <<cell, lockCount, val, counter, tmp, frames, exc, rounds, done, net,
                 sigVars, syncVars, memVars, objVars>>

\* Lock.acquire after the wait has returned "timed-out": the result of
\* Atomics.wait is an expression statement, nothing looks at it, and
\* `while (true)` goes round to the load.
AcquireRetry(a) ==
    /\ pc[a] = "timedout"
    /\ pc' = [pc EXCEPT ![a] = "load"]
    /\ UNCHANGED <<cell, lockCount, val, lockWaiters, counter, tmp, frames, exc, rounds,
                 done, net, sigVars, syncVars, memVars, objVars>>

\* Mutant of ReleaseNested: a nested release gives the cell back as the final
\* one does.
ReleaseNestedFrees(a) ==
    /\ pc[a] = "rel"
    /\ lockCount[a] > 1
    /\ lockCount' = [lockCount EXCEPT ![a] = @ - 1]
    /\ cell' = cell + 1
    /\ net' = [net EXCEPT ![a] = @ + 1]
    /\ pc' = [pc EXCEPT ![a] = "exit"]
    /\ UNCHANGED <<val, lockWaiters, counter, tmp, frames, exc, rounds, done,
                 sigVars, syncVars, memVars, objVars>>

\* Lock.release, `if (this.lockCount > 1) { this.lockCount--; return; }`
ReleaseNested(a) ==
    /\ pc[a] = "rel"
    /\ lockCount[a] > 1
    /\ lockCount' = [lockCount EXCEPT ![a] = @ - 1]
    /\ pc' = [pc EXCEPT ![a] = "exit"]
    /\ UNCHANGED <<cell, val, lockWaiters, counter, tmp, frames, exc, rounds, done, net,
                 sigVars, syncVars, memVars, objVars>>

\* The final release giving the cell two units.
ReleaseAddTwo(a) ==
    /\ pc[a] = "rel"
    /\ ~(lockCount[a] > 1)
    /\ cell' = cell + 2
    /\ net' = [net EXCEPT ![a] = @ + 2]
    /\ pc' = [pc EXCEPT ![a] = "notify"]
    /\ UNCHANGED <<lockCount, val, lockWaiters, counter, tmp, frames, exc, rounds, done,
                 sigVars, syncVars, memVars, objVars>>

\* Lock.release, `Atomics.add(this.buffer, 0, 1)`
ReleaseAdd(a) ==
    /\ pc[a] = "rel"
    /\ ~(lockCount[a] > 1)
    /\ cell' = cell + 1
    /\ net' = [net EXCEPT ![a] = @ + 1]
    /\ pc' = [pc EXCEPT ![a] = "notify"]
    /\ UNCHANGED <<lockCount, val, lockWaiters, counter, tmp, frames, exc, rounds, done,
                 sigVars, syncVars, memVars, objVars>>

\* Lock.release, `Atomics.notify(this.buffer, 0, 1); this.lockCount = 0`:
\* the longest-suspended waiter, if any, resumes at the loop head.
ReleaseNotify(a) ==
    /\ pc[a] = "notify"
    /\ IF lockWaiters = <<>>
       THEN /\ pc' = [pc EXCEPT ![a] = "exit"]
            /\ UNCHANGED lockWaiters
       ELSE /\ pc' = [pc EXCEPT ![a] = "exit", ![Head(lockWaiters)] = "load"]
            /\ lockWaiters' = Tail(lockWaiters)
    /\ lockCount' = [lockCount EXCEPT ![a] = 0]
    /\ UNCHANGED <<cell, val, counter, tmp, frames, exc, rounds, done, net,
                 sigVars, syncVars, memVars, objVars>>

\* ------------------------------------------------- the callback and exit
\* callback(this): reads the shared counter ...
CallbackRead(a) ==
    /\ pc[a] = "body"
    /\ tmp' = [tmp EXCEPT ![a] = counter]
    /\ pc' = [pc EXCEPT ![a] = "write"]
    /\ UNCHANGED <<cell, lockCount, val, lockWaiters, counter, frames, exc, rounds, done, net,
                 sigVars, syncVars, memVars, objVars>>

\* ... and writes it back incremented (the value read is then out of scope).
CallbackWrite(a) ==
    /\ pc[a] = "write"
    /\ counter' = tmp[a] + 1
    /\ tmp' = [tmp EXCEPT ![a] = 0]
    /\ done' = [done EXCEPT ![a] = @ + 1]
    /\ pc' = [pc EXCEPT ![a] = "ret"]
    /\ UNCHANGED <<cell, lockCount, val, lockWaiters, frames, exc, rounds, net,
                 sigVars, syncVars, memVars, objVars>>

\* The callback returns normally: control enters the finally block.
CallbackReturn(a) ==
    /\ pc[a] = "ret"
    /\ pc' = [pc EXCEPT ![a] = "rel"]
    /\ UNCHANGED <<cell, lockCount, val, lockWaiters, counter, tmp, frames, exc, rounds, done, net,
                 sigVars, syncVars, memVars, objVars>>

\* Mutant of CallbackThrow: no finally block, the exception leaves runLocked
\* without the release.
CallbackThrowNoFinally(a) ==
    /\ pc[a] = "ret"
    /\ exc' = [exc EXCEPT ![a] = TRUE]
    /\ pc' = [pc EXCEPT ![a] = "exit"]
    /\ UNCHANGED <<cell, lockCount, val, lockWaiters, counter, tmp, frames, rounds, done, net,
                 sigVars, syncVars, memVars, objVars>>

\* The callback throws: control enters the finally block with the exception pending.
CallbackThrow(a) ==
    /\ pc[a] = "ret"
    /\ exc' = [exc EXCEPT ![a] = TRUE]
    /\ pc' = [pc EXCEPT ![a] = "rel"]
    /\ UNCHANGED <<cell, lockCount, val, lockWaiters, counter, tmp, frames, rounds, done, net,
                 sigVars, syncVars, memVars, objVars>>

\* runLocked (or a bare release) is left, normally or with the exception, which
\* its caller (the enclosing callback, or the agent's top level) catches.
RunLockedExit(a) ==
    /\ pc[a] = "exit"
    /\ frames' = [frames EXCEPT ![a] = IF @ = <<>> THEN @ ELSE Pop(@)]
    /\ pc' = [pc EXCEPT ![a] = IF Len(frames[a]) >= 2 THEN "body" ELSE "idle"]
    /\ exc' = [exc EXCEPT ![a] = FALSE]
    /\ UNCHANGED <<cell, lockCount, val, lockWaiters, counter, tmp, rounds, done, net,
                 sigVars, syncVars, memVars, objVars>>

\* A bare call of lock.acquire(), from between two calls.
CallAcquire(a) ==
    /\ pc[a] \in {"idle", "body"}
    /\ lockCount[a] < MaxDepth
    /\ pc' = [pc EXCEPT ![a] = "acq"]
    /\ UNCHANGED <<cell, lockCount, val, lockWaiters, counter, tmp, frames, exc, rounds, done, net,
                 sigVars, syncVars, memVars, objVars>>

\* A bare call of lock.release(), whether or not the caller holds the lock.
CallRelease(a) ==
    /\ pc[a] \in {"idle", "body"}
    /\ cell < MaxCell
    /\ pc' = [pc EXCEPT ![a] = "rel"]
    /\ UNCHANGED <<cell, lockCount, val, lockWaiters, counter, tmp, frames, exc, rounds, done, net,
                 sigVars, syncVars, memVars, objVars>>

\* ----------------------------------------------------------- the Signal
\* new Signal(memory): Atomics.store(buffer, 0, 0).
SignalInit ==
    /\ sig = 0
    /\ sigWaiters = <<>>

Min(x, y) == IF x <= y THEN x ELSE y

\* What wait()/waitAsync() do with the result of the atomic wait: "timed-out"
\* raises; "not-equal" loads the cell and raises unless it holds 1; "ok" returns.
WaitResultRaises(result) ==
    \/ result = "timed-out"
    \/ result = "not-equal" /\ sig # 1

\* Signal.wait, `Atomics.wait(this.buffer, 0, 0)`: "not-equal" at once when the
\* cell is not 0, else the agent is suspended until a notify wakes it ("ok").
SignalWait(a) ==
    /\ spc[a] = "idle"
    /\ IF sig # 0
       THEN /\ sres' = [sres EXCEPT ![a] = "not-equal"]
            /\ spc' = [spc EXCEPT ![a] = "w_chk"]
            /\ UNCHANGED sigWaiters
       ELSE /\ sigWaiters' = Append(sigWaiters, <<a, "sync">>)
            /\ spc' = [spc EXCEPT ![a] = "w_blocked"]
            /\ UNCHANGED sres
    /\ UNCHANGED <<sig, prom, rcount, rwoke, ires, nStores, lockVars,
                 syncVars, memVars, objVars>>

\* Signal.wait, the checks on `result` after the atomic wait has returned.
SignalWaitCheck(a) ==
    /\ spc[a] = "w_chk"
    /\ spc' = [spc EXCEPT ![a] = IF WaitResultRaises(sres[a]) THEN "raised" ELSE "w_ret"]
    /\ sres' = [sres EXCEPT ![a] = "none"]
    /\ UNCHANGED <<sig, sigWaiters, prom, rcount, rwoke, ires, nStores, lockVars,
                 syncVars, memVars, objVars>>

\* Mutant of SignalWaitAsync: the synchronous result is not looked at, a waiter
\* is queued and a promise handed back whatever the cell holds.
SignalWaitAsyncAlwaysQueues(a) ==
    /\ spc[a] = "idle"
    /\ prom[a] \in {"none", "fulfilled"}
    /\ sigWaiters' = Append(sigWaiters, <<a, "async">>)
    /\ prom' = [prom EXCEPT ![a] = "pending"]
    /\ UNCHANGED <<spc, sres>>
    /\ UNCHANGED <<sig, rcount, rwoke, ires, nStores, lockVars, syncVars, memVars, objVars>>

\* Signal.waitAsync, `Atomics.waitAsync(this.buffer, 0, 0)`: {async: false,
\* value: "not-equal"} when the cell is not 0, else {async: true} with a
\* promise, the waiter queued and the agent not suspended: waitAsync returns
\* the promise at once.
SignalWaitAsync(a) ==
    /\ spc[a] = "idle"
    /\ prom[a] \in {"none", "fulfilled"}
    /\ IF sig # 0
       THEN /\ sres' = [sres EXCEPT ![a] = "not-equal"]
            /\ spc' = [spc EXCEPT ![a] = "wa_chk"]
            /\ UNCHANGED <<sigWaiters, prom>>
       ELSE /\ sigWaiters' = Append(sigWaiters, <<a, "async">>)
            /\ prom' = [prom EXCEPT ![a] = "pending"]
            /\ UNCHANGED <<spc, sres>>
    /\ UNCHANGED <<sig, rcount, rwoke, ires, nStores, lockVars,
                 syncVars, memVars, objVars>>

\* Signal.waitAsync, the `p.async === false` branch.
SignalWaitAsyncCheck(a) ==
    /\ spc[a] = "wa_chk"
    /\ spc' = [spc EXCEPT ![a] = IF WaitResultRaises(sres[a]) THEN "raised" ELSE "wa_ret"]
    /\ sres' = [sres EXCEPT ![a] = "none"]
    /\ UNCHANGED <<sig, sigWaiters, prom, rcount, rwoke, ires, nStores, lockVars,
                 syncVars, memVars, objVars>>

\* Signal.wait, `Atomics.wait(this.buffer, 0, 0)` returning "timed-out" to a
\* suspended agent (the primitive breaking its contract).
SignalWaitTimesOut(a) ==
    /\ spc[a] = "w_blocked"
    /\ sigWaiters' = Without(sigWaiters, <<a, "sync">>)
    /\ sres' = [sres EXCEPT ![a] = "timed-out"]
    /\ spc' = [spc EXCEPT ![a] = "w_chk"]
    /\ UNCHANGED <<sig, prom, rcount, rwoke, ires, nStores, lockVars,
                 syncVars, memVars, objVars>>

\* Signal.waitAsync, `Atomics.waitAsync(this.buffer, 0, 0)` returning
\* {async: false, value: "timed-out"} (the primitive breaking its contract).
SignalWaitAsyncTimesOut(a) ==
    /\ spc[a] = "idle"
    /\ prom[a] \in {"none", "fulfilled"}
    /\ sig = 0
    /\ sres' = [sres EXCEPT ![a] = "timed-out"]
    /\ spc' = [spc EXCEPT ![a] = "wa_chk"]
    /\ UNCHANGED <<sig, sigWaiters, prom, rcount, rwoke, ires, nStores, lockVars,
                 syncVars, memVars, objVars>>

\* The promise of Atomics.waitAsync settled with "timed-out" (the primitive
\* breaking its contract).
PromiseTimesOut(a) ==
    /\ prom[a] = "pending"
    /\ sigWaiters' = Without(sigWaiters, <<a, "async">>)
    /\ prom' = [prom EXCEPT ![a] = "timedout"]
    /\ UNCHANGED <<sig, spc, sres, rcount, rwoke, ires, nStores, lockVars,
                 syncVars, memVars, objVars>>

\* Signal.waitAsync, `p.value.then((result) => ...)`: the reaction runs on the
\* agent's own event loop, once the underlying promise is settled, by a
\* notify with "ok" or else with "timed-out"; it throws (rejecting the
\* promise it returns) only on "timed-out".
PromiseThen(a) ==
    /\ spc[a] = "idle"
    /\ prom[a] \in {"notified", "timedout"}
    /\ prom' = [prom EXCEPT ![a] =
           IF WaitResultRaises(IF prom[a] = "notified" THEN "ok" ELSE "timed-out")
           THEN "rejected" ELSE "fulfilled"]
    /\ UNCHANGED <<sig, sigWaiters, spc, sres, rcount, rwoke, ires, nStores, lockVars,
                 syncVars, memVars, objVars>>

\* Signal.isResolved, `Atomics.load(this.buffer, 0) === 1`
SignalIsResolved(a) ==
    /\ spc[a] = "idle"
    /\ ires' = [ires EXCEPT ![a] = (sig = 1)]
    /\ spc' = [spc EXCEPT ![a] = "ir_ret"]
    /\ UNCHANGED <<sig, sigWaiters, sres, prom, rcount, rwoke, nStores, lockVars,
                 syncVars, memVars, objVars>>

\* Mutant of SignalStore: the store is missing, resolve() only notifies.
SignalStoreMissing(a, count) ==
    /\ spc[a] = "idle"
    /\ nStores < MaxResolves
    /\ rcount' = [rcount EXCEPT ![a] = count]
    /\ spc' = [spc EXCEPT ![a] = "r_notify"]
    /\ UNCHANGED <<sig, nStores, sigWaiters, sres, prom, rwoke, ires, lockVars,
                 syncVars, memVars, objVars>>

\* Mutant of SignalStore: resolve() toggles the cell.
SignalStoreToggles(a, count) ==
    /\ spc[a] = "idle"
    /\ nStores < MaxResolves
    /\ sig' = 1 - sig
    /\ nStores' = nStores + 1
    /\ rcount' = [rcount EXCEPT ![a] = count]
    /\ spc' = [spc EXCEPT ![a] = "r_notify"]
    /\ UNCHANGED <<sigWaiters, sres, prom, rwoke, ires, lockVars,
                 syncVars, memVars, objVars>>

\* Mutant of SignalStore: resolve() counts up, Atomics.add(buffer, 0, 1).
SignalStoreAdds(a, count) ==
    /\ spc[a] = "idle"
    /\ nStores < MaxResolves
    /\ sig' = sig + 1
    /\ nStores' = nStores + 1
    /\ rcount' = [rcount EXCEPT ![a] = count]
    /\ spc' = [spc EXCEPT ![a] = "r_notify"]
    /\ UNCHANGED <<sigWaiters, sres, prom, rwoke, ires, lockVars,
                 syncVars, memVars, objVars>>

\* Signal.resolve(agentsToNotify), `Atomics.store(this.buffer, 0, 1)`
SignalStore(a, count) ==
    /\ spc[a] = "idle"
    /\ nStores < MaxResolves
    /\ sig' = 1
    /\ nStores' = nStores + 1
    /\ rcount' = [rcount EXCEPT ![a] = count]
    /\ spc' = [spc EXCEPT ![a] = "r_notify"]
    /\ UNCHANGED <<sigWaiters, sres, prom, rwoke, ires, lockVars,
                 syncVars, memVars, objVars>>

\* Mutant of NotifyCount: an undefined agentsToNotify wakes one waiter.
NotifyCountOne(count, waiting) == Min(IF count = Infinity THEN 1 ELSE count, waiting)

\* Mutant of NotifyCount: an undefined agentsToNotify is taken as 0.
NotifyCountZero(count, waiting) == Min(IF count = Infinity THEN 0 ELSE count, waiting)

\* Atomics.notify(buffer, 0, count) wakes the first min(count, waiting) waiters.
NotifyCount(count, waiting) == Min(count, waiting)

\* Signal.resolve, `Atomics.notify(this.buffer, 0, agentsToNotify)`: a woken
\* agent's wait returns "ok"; a woken async waiter's promise is settled.
SignalNotify(a) ==
    /\ spc[a] = "r_notify"
    /\ LET n == NotifyCount(rcount[a], Len(sigWaiters))
           woken == {sigWaiters[i] : i \in 1 .. n}
       IN /\ sigWaiters' = SubSeq(sigWaiters, n + 1, Len(sigWaiters))
          /\ spc' = [b \in SigAgents |->
                 IF b = a THEN "r_ret"
                 ELSE IF <<b, "sync">> \in woken THEN "w_chk" ELSE spc[b]]
          /\ sres' = [b \in SigAgents |->
                 IF <<b, "sync">> \in woken THEN "ok" ELSE sres[b]]
          /\ prom' = [b \in SigAgents |->
                 IF <<b, "async">> \in woken THEN "notified" ELSE prom[b]]
          /\ rwoke' = [rwoke EXCEPT ![a] = n]
    /\ rcount' = [rcount EXCEPT ![a] = 0]
    /\ UNCHANGED <<sig, ires, nStores, lockVars,
                 syncVars, memVars, objVars>>

\* wait(), waitAsync(), isResolved() or resolve() returns to its caller.
SignalReturn(a) ==
    /\ spc[a] \in {"w_ret", "wa_ret", "ir_ret", "r_ret"}
    /\ spc' = [spc EXCEPT ![a] = "idle"]
    /\ rwoke' = [rwoke EXCEPT ![a] = 0]
    /\ ires' = [ires EXCEPT ![a] = FALSE]
    /\ UNCHANGED <<sig, sigWaiters, sres, prom, rcount, nStores, lockVars,
                 syncVars, memVars, objVars>>

\* ------------------------------------------------------ Synchronize
\* The names read, written or called through a Synchronize wrapper, by what
\* they are on the target: an own data property; an own property that holds a
\* function; an accessor (getter and setter) on the target's prototype; a
\* method on the prototype; a name found further up the prototype chain only,
\* or nowhere, whose value is not a function.
Props == {"data", "ownFunction", "accessor", "method", "inherited"}

\* isPropertyOrGetter(target, p): Object.hasOwn(target, p), or the immediate
\* prototype has a descriptor for p with a getter.
isPropertyOrGetter(p) == p \in {"data", "ownFunction", "accessor"}

\* isPropertyOrSetter(target, p): Object.hasOwn(target, p), or the immediate
\* prototype has a descriptor for p with a setter.
isPropertyOrSetter(p) == p \in {"data", "ownFunction", "accessor"}

\* typeof Reflect.get(target, p, receiver) === 'function', for a name that is
\* not a property or getter.
IsFunction(p) == p = "method"

\* The agent is where it can use its wrapper: at its top level, or inside a
\* callback or method body, no trap being in progress.
CanCall(a) ==
    /\ pc[a] \in {"idle", "body"}
    /\ acc[a] = "none"
    /\ rounds[a] < MaxRounds

\* A trap, or func, begins: it records what the caller saw and calls lock.acquire().
EnterAccess(a, kind) ==
    /\ CanCall(a)
    /\ Len(frames[a]) < MaxDepth
    /\ frames' = [frames EXCEPT ![a] = Append(@,
           [lc |-> lockCount[a], cell |-> cell, net |-> net[a]])]
    /\ rounds' = [rounds EXCEPT ![a] = @ + 1]
    /\ acc' = [acc EXCEPT ![a] = kind]
    /\ pc' = [pc EXCEPT ![a] = "acq"]
    /\ UNCHANGED <<cell, lockCount, val, lockWaiters, counter, tmp, exc, done, net,
                 sigVars, memVars, objVars>>

\* No trap has returned without the lock yet.
NoTrap == [trap |-> "none", p |-> "none", value |-> "none"]

\* A trap that does not touch the lock returns at once: the get trap falls
\* off its end (undefined), the set trap ends with `return false`.
ReturnUnlocked(a, trap, p) ==
    /\ CanCall(a)
    /\ rounds' = [rounds EXCEPT ![a] = @ + 1]
    /\ ret' = [trap |-> trap, p |-> p,
               value |-> IF trap = "get" THEN "undefined" ELSE "false"]
    /\ UNCHANGED <<cell, lockCount, pc, val, lockWaiters, counter, tmp, frames, exc,
                 done, net, acc, sigVars, memVars, other, ctor>>

\* func(target, p, ...args): try { lock.acquire(); return target[p](...args) }
\* finally { lock.release() }: the method body runs as a callback does.
Synchronize_func(a) == EnterAccess(a, "none")

\* The Proxy's get trap for a name other than runLocked, and the call of what
\* it hands back when the caller calls it: a property or getter is read under
\* the lock; a function found otherwise is handed back as func bound to its
\* name, whose call takes the lock; anything else yields undefined, the lock
\* not touched.
ProxyGet(a, p) ==
    IF isPropertyOrGetter(p)
    THEN EnterAccess(a, IF p = "ownFunction" THEN "getFunction" ELSE "get")
    ELSE IF IsFunction(p)
         THEN Synchronize_func(a)
         ELSE ReturnUnlocked(a, "get", p)

\* Mutant of ProxySet: no isPropertyOrSetter test, the trap writes any name
\* under the lock and returns true.
ProxySetWritesAny(a, p) == EnterAccess(a, "set")

\* The Proxy's set trap: a property or setter is written under the lock and
\* the trap returns true; anything else is not written, the trap returns false.
ProxySet(a, p) ==
    IF isPropertyOrSetter(p)
    THEN EnterAccess(a, "set")
    ELSE ReturnUnlocked(a, "set", p)

\* get trap, `return (target as any)[p]`: the read itself; control enters the
\* finally block. A function read from an own property goes back to the
\* caller, who calls it.
TargetGet(a) ==
    /\ pc[a] = "body"
    /\ acc[a] \in {"get", "getFunction"}
    /\ acc' = [acc EXCEPT ![a] = IF @ = "getFunction" THEN "invoke" ELSE "none"]
    /\ pc' = [pc EXCEPT ![a] = "rel"]
    /\ UNCHANGED <<cell, lockCount, val, lockWaiters, counter, tmp, frames, exc,
                 rounds, done, net, sigVars, memVars, objVars>>

\* set trap, `(target as any)[p] = value`: the write itself (here of 0).
TargetSet(a) ==
    /\ pc[a] = "body"
    /\ acc[a] = "set"
    /\ counter' = 0
    /\ acc' = [acc EXCEPT ![a] = "none"]
    /\ pc' = [pc EXCEPT ![a] = "rel"]
    /\ UNCHANGED <<cell, lockCount, val, lockWaiters, tmp, frames, exc,
                 rounds, done, net, sigVars, memVars, objVars>>

\* The getter or setter behind target[p] throws: control enters the finally
\* block with the exception pending.
TargetThrow(a) ==
    /\ pc[a] = "body"
    /\ acc[a] \in {"get", "set"}
    /\ exc' = [exc EXCEPT ![a] = TRUE]
    /\ acc' = [acc EXCEPT ![a] = "none"]
    /\ pc' = [pc EXCEPT ![a] = "rel"]
    /\ UNCHANGED <<cell, lockCount, val, lockWaiters, counter, tmp, frames,
                 rounds, done, net, sigVars, memVars, objVars>>

\* wrapper.p(...) for an own property that holds a function: the get trap has
\* returned the function itself and the caller calls it; its body reads the
\* target's counter ...
MethodRead(a) ==
    /\ pc[a] \in {"idle", "body"}
    /\ acc[a] = "invoke"
    /\ tmp' = [tmp EXCEPT ![a] = counter]
    /\ acc' = [acc EXCEPT ![a] = "invoked"]
    /\ UNCHANGED <<cell, lockCount, pc, val, lockWaiters, counter, frames, exc,
                 rounds, done, net, sigVars, memVars, objVars>>

\* ... and writes it back incremented.
MethodWrite(a) ==
    /\ acc[a] = "invoked"
    /\ counter' = tmp[a] + 1
    /\ tmp' = [tmp EXCEPT ![a] = 0]
    /\ acc' = [acc EXCEPT ![a] = "none"]
    /\ UNCHANGED <<cell, lockCount, pc, val, lockWaiters, frames, exc,
                 rounds, done, net, sigVars, memVars, objVars>>

\* ------------------------------------------------- SharedMemory, ranges
\* The SharedMemory wrappers at hand: two, over the same arena (one made by
\* create(), one by createFrom(transferable)), so with the same id.
Wrappers == {1, 2}

\* MemoryImpl.id; "B" is the id of an arena none of the wrappers is attached to.
WrapperId(w) == "A"

MemoryIds == {"A", "B"}

\* Alignment.byte, word.
Alignments == {1, 4}

\* u32 of the component model: 4 bytes, aligned to 4.
u32 == [kind |-> "value", size |-> 4, alignment |-> 4]

\* Lock.Type: an ObjectType with alignment = u32.alignment, size = u32.size.
LockType == [kind |-> "object", size |-> u32.size, alignment |-> u32.alignment]

\* SharedObject.properties
SharedObject_properties ==
    << <<"_size", u32>>, <<"_id", u32>>, <<"_lock", LockType>> >>

Max(x, y) == IF x >= y THEN x ELSE y

\* Alignment.align(size, alignment): size rounded up to a multiple of alignment.
Align(size, alignment) == ((size + alignment - 1) \div alignment) * alignment

\* The loop body without the rounding of the running offset.
AddFieldPacked(prev, name, type) ==
    IF prev.trap \/ \E i \in 1 .. Len(prev.fields) : prev.fields[i].name = name
    THEN [prev EXCEPT !.trap = TRUE]
    ELSE [alignment |-> Max(prev.alignment, type.alignment),
          size |-> prev.size + type.size,
          fields |-> Append(prev.fields,
                        [name |-> name, type |-> type, offset |-> prev.size]),
          trap |-> FALSE]

\* The loop body without the tracking of the maximal alignment.
AddFieldKeepsAlignment(prev, name, type) ==
    IF prev.trap \/ \E i \in 1 .. Len(prev.fields) : prev.fields[i].name = name
    THEN [prev EXCEPT !.trap = TRUE]
    ELSE [alignment |-> prev.alignment,
          size |-> Align(prev.size, type.alignment) + type.size,
          fields |-> Append(prev.fields,
                        [name |-> name, type |-> type,
                         offset |-> Align(prev.size, type.alignment)]),
          trap |-> FALSE]

\* The loop body without the test for a name already present.
AddFieldUnchecked(prev, name, type) ==
    [alignment |-> Max(prev.alignment, type.alignment),
     size |-> Align(prev.size, type.alignment) + type.size,
     fields |-> Append(prev.fields,
                   [name |-> name, type |-> type,
                    offset |-> Align(prev.size, type.alignment)]),
     trap |-> prev.trap]

\* One turn of the loop of Record.Type's constructor, for the property
\* [name, type]: a name already present raises the trap; otherwise the
\* alignment is maximised, the running size is rounded up to the field's
\* alignment to give its offset and then advanced by the field's size.
AddField(prev, name, type) ==
    LET offset == Align(prev.size, type.alignment)
    IN IF prev.trap \/ \E i \in 1 .. Len(prev.fields) : prev.fields[i].name = name
       THEN [prev EXCEPT !.trap = TRUE]
       ELSE [alignment |-> Max(prev.alignment, type.alignment),
             size |-> offset + type.size,
             fields |-> Append(prev.fields,
                           [name |-> name, type |-> type, offset |-> offset]),
             trap |-> FALSE]

\* Record.Type's constructor after the first n properties: the running
\* alignment and size, the fields with their offsets, and whether a duplicate
\* name has raised the trap.
RECURSIVE Layout(_, _)
Layout(props, n) ==
    IF n = 0
    THEN [alignment |-> 1, size |-> 0, fields |-> <<>>, trap |-> FALSE]
    ELSE AddField(Layout(props, n - 1), props[n][1], props[n][2])

\* The constructor with the size rounded up to the type's alignment at the end.
RecordTypePadded(props) ==
    [Layout(props, Len(props)) EXCEPT !.size = Align(@, Layout(props, Len(props)).alignment)]

\* new Record.Type(properties)
RecordType(props) == Layout(props, Len(props))

\* The record types handed to SharedObject's constructor: the base
\* properties alone, the base properties and a u32 payload, a u32 payload alone.
BaseType == RecordType(SharedObject_properties)

PayloadType == RecordType(SharedObject_properties \o << <<"payload", u32>> >>)

ValueOnlyType == RecordType(<< <<"payload", u32>> >>)

\* A record of two u32 values and no object.
PairType == RecordType(<< <<"first", u32>>, <<"second", u32>> >>)

TypeNames == {"base", "payload", "valueOnly", "pair"}

TypeOf(t) ==
    IF t = "base" THEN BaseType
    ELSE IF t = "payload" THEN PayloadType
    ELSE IF t = "pair" THEN PairType
    ELSE ValueOnlyType

\* The property arrays a Record.Type is constructed from: names, and value
\* types of the alignments byte, halfWord, word, doubleWord.
FieldNames == {"a", "b", "c"}

FieldAlignments == {1, 2, 4, 8}

FieldSizes == {3, 4}

FieldTypes ==
    {[kind |-> "value", size |-> s, alignment |-> a] : a \in FieldAlignments, s \in FieldSizes}

\* The property lists of n properties.
PropertyLists(n) == [1 .. n -> FieldNames \X FieldTypes]

\* The ways the constructor is handed a property list: as no array (the empty
\* list), as one array, or as two (a base's properties and a subtype's).
PropertyArrays(props) ==
    (IF props = <<>> THEN {<<>>} ELSE {})
        \cup {<<props>>}
        \cup {<<SubSeq(props, 1, k), SubSeq(props, k + 1, Len(props))>> : k \in 0 .. Len(props)}

RECURSIVE Concat(_, _)
Concat(arrays, n) == IF n = 0 THEN <<>> ELSE Concat(arrays, n - 1) \o arrays[n]

\* `properties` of the constructor: [] for no array, the array itself for
\* one, the concatenation in order for more.
Properties(arrays) ==
    IF Len(arrays) = 0 THEN <<>>
    ELSE IF Len(arrays) = 1 THEN arrays[1]
    ELSE Concat(arrays, Len(arrays))

\* new Record.Type(...arrays), once: the combined list and the outcome are kept.
NewRecordType ==
    /\ ~rec.built
    /\ \E n \in 0 .. MaxFields :
          \E props \in PropertyLists(n) :
             \E arrays \in PropertyArrays(props) :
                rec' = [built |-> TRUE, props |-> props,
                        type |-> RecordType(Properties(arrays))]
    /\ UNCHANGED <<lockVars, sigVars, syncVars, mem, res, nAllocs, nWrites, objVars>>

\* The pointers and sizes the operations are called with.
Ptrs == {0, 4, BufLen - 4, BufLen}

Sizes == {0, 4, BaseType.size, PayloadType.size, BufLen + 1}

AllocSizes == {0, 1, 4}

\* The addresses the arena's allocator hands out blocks at.
HeapAddresses == {1, 4, 8, 16, BufLen - 1}

Addresses == 0 .. (BufLen - 1)

\* A range object, or what was raised in place of one.
Range(kind, w, ptr, size) == [kind |-> kind, memory |-> w, ptr |-> ptr, size |-> size]

Raise(kind) == [kind |-> kind, memory |-> 0, ptr |-> 0, size |-> 0]

IsRange(v) == v.kind \in {"MemoryRange", "ReadonlyMemoryRange"}

\* What an operation leaves behind: what it returned or raised, the bytes of
\* the buffer, the calls it made.
Outcome(out, bytes, calls) == [out |-> out, mem |-> bytes, calls |-> calls]

\* The export aligned_alloc(align, size) of the arena's module: the null
\* address, or the address of a block of the buffer aligned to align.
AlignedAllocReturns(align, size) ==
    {0} \cup {p \in HeapAddresses : p % align = 0 /\ p + size <= BufLen}

\* range.getUint8View(0).fill(0): every byte of [ptr, ptr + size) is set to 0.
ZeroFill(bytes, ptr, size) ==
    [i \in Addresses |-> IF ptr <= i /\ i < ptr + size THEN 0 ELSE bytes[i]]

\* alloc without the test for the null address.
MemoryImpl_allocUnchecked(w, align, size, p) ==
    Outcome(Range("MemoryRange", w, p, size), ZeroFill(mem, p, size), <<"aligned_alloc">>)

\* alloc with the fill running one byte past the block.
MemoryImpl_allocFillsPast(w, align, size, p) ==
    IF p = 0
    THEN Outcome(Raise("Error"), mem, <<"aligned_alloc", "console.error">>)
    ELSE Outcome(Range("MemoryRange", w, p, size), ZeroFill(mem, p, size + 1),
                 <<"aligned_alloc">>)

\* MemoryImpl.alloc(align, size), aligned_alloc returning p.
MemoryImpl_alloc(w, align, size, p) ==
    IF p = 0
    THEN Outcome(Raise("Error"), mem, <<"aligned_alloc", "console.error">>)
    ELSE Outcome(Range("MemoryRange", w, p, size), ZeroFill(mem, p, size),
                 <<"aligned_alloc">>)

\* preAllocated refusing a range that ends exactly at the end of the buffer.
MemoryImpl_preAllocatedStrict(w, ptr, size) ==
    IF ptr + size >= BufLen
    THEN Outcome(Raise("MemoryError"), mem, <<>>)
    ELSE Outcome(Range("MemoryRange", w, ptr, size), mem, <<>>)

\* MemoryImpl.preAllocated(ptr, size)
MemoryImpl_preAllocated(w, ptr, size) ==
    IF ptr + size > BufLen
    THEN Outcome(Raise("MemoryError"), mem, <<>>)
    ELSE Outcome(Range("MemoryRange", w, ptr, size), mem, <<>>)

\* readonly clearing the range it hands out, as alloc does.
MemoryImpl_readonlyClears(w, ptr, size) ==
    IF ptr + size > BufLen
    THEN Outcome(Raise("MemoryError"), mem, <<>>)
    ELSE Outcome(Range("ReadonlyMemoryRange", w, ptr, size), ZeroFill(mem, ptr, size), <<>>)

\* MemoryImpl.readonly(ptr, size)
MemoryImpl_readonly(w, ptr, size) ==
    IF ptr + size > BufLen
    THEN Outcome(Raise("MemoryError"), mem, <<>>)
    ELSE Outcome(Range("ReadonlyMemoryRange", w, ptr, size), mem, <<>>)

\* from describing the range by its size only.
MemoryLocation_fromBase(memRange) ==
    [memory |-> [id |-> WrapperId(memRange.memory)],
     ptr |-> 0,
     size |-> memRange.size]

\* free without the rethrow in its catch block.
MemoryImpl_freeSwallows(w, range, raises) ==
    IF raises
    THEN Outcome([kind |-> "undefined", memory |-> 0, ptr |-> 0, size |-> 0], mem,
                 <<"free", "console.error">>)
    ELSE Outcome([kind |-> "undefined", memory |-> 0, ptr |-> 0, size |-> 0], mem,
                 <<"free">>)

\* An operation that returns nothing has returned.
Returned == [kind |-> "undefined", memory |-> 0, ptr |-> 0, size |-> 0]

\* Uint8Array.prototype.copyWithin(target, start, end) on the whole buffer:
\* min(end - start, length - target) bytes go from start to target.
CopyBytes(bytes, target, start, end) ==
    LET count == Min(end - start, BufLen - target)
    IN [i \in Addresses |->
           IF target <= i /\ i < target + count THEN bytes[start + (i - target)]
           ELSE bytes[i]]

\* MemoryImpl.copyWithin(dest, src)
MemoryImpl_copyWithin(w, dest, src) ==
    Outcome(Returned, CopyBytes(mem, dest.ptr, src.ptr, src.ptr + src.size), <<>>)

\* The argument of this.exports.free in MemoryImpl.free.
ExportsFreeArgument(range) == range.ptr

\* MemoryImpl.free(range), the export free returning or raising (a trap of the
\* module surfaces as a WebAssembly.RuntimeError).
MemoryImpl_free(w, range, raises) ==
    IF raises
    THEN Outcome(Raise("RuntimeError"), mem, <<"free", "console.error">>)
    ELSE Outcome(Returned, mem, <<"free">>)

\* MemoryLocation.from(memRange)
MemoryLocation_from(memRange) ==
    [memory |-> [id |-> WrapperId(memRange.memory)],
     ptr |-> memRange.ptr,
     size |-> memRange.size]

\* to without the comparison of the ids.
MemoryLocation_toUnchecked(w, location) ==
    LET r == MemoryImpl_preAllocated(w, location.ptr, location.size)
    IN Outcome(r.out, r.mem, <<"preAllocated">> \o r.calls)

\* MemoryLocation.to(memory, location)
MemoryLocation_to(w, location) ==
    IF WrapperId(w) # location.memory.id
    THEN Outcome(Raise("MemoryError"), mem, <<>>)
    ELSE LET r == MemoryImpl_preAllocated(w, location.ptr, location.size)
         IN Outcome(r.out, r.mem, <<"preAllocated">> \o r.calls)

\* The locations a peer may send.
Locations ==
    {[memory |-> [id |-> i], ptr |-> p, size |-> n] :
        i \in MemoryIds, p \in Ptrs, n \in Sizes}

\* The u32 at ptr, as the Int32Array view of a wasm memory reads it.
ReadU32(bytes, ptr) ==
    bytes[ptr] + 256 * bytes[ptr + 1] + 65536 * bytes[ptr + 2] + 16777216 * bytes[ptr + 3]

\* u32.store(memory, offset, value): the four bytes at ptr take the value,
\* low byte first, modulo 2^32.
StoreU32(bytes, ptr, value) ==
    [i \in Addresses |->
        IF i = ptr THEN value % 256
        ELSE IF i = ptr + 1 THEN (value \div 256) % 256
        ELSE IF i = ptr + 2 THEN (value \div 65536) % 256
        ELSE IF i = ptr + 3 THEN (value \div 16777216) % 256
        ELSE bytes[i]]

\* The u32 values stored: 0, one of two non-zero bytes, one of four distinct
\* bytes (0x01020304).
Values == {0, 258, 16909060}

\* The setter storing at the start of the record, whatever the field.
RecordSetAtBase(bytes, view, type, i, value) == StoreU32(bytes, view.ptr, value)

\* The setter of the i-th field of a loaded record, a ValueType field:
\* type.store(memory, offset + fieldInfo.offset, value), offset being 0.
RecordSet(bytes, view, type, i, value) ==
    StoreU32(bytes, view.ptr + type.fields[i].offset, value)

\* The getter of the i-th field of a loaded record, a ValueType field:
\* type.load(memory, offset + fieldInfo.offset), offset being 0.
RecordGet(bytes, view, type, i) == ReadU32(bytes, view.ptr + type.fields[i].offset)

\* range.assertAlignment(offset, alignment)
Misaligned(range, offset, alignment) == (range.ptr + offset) % alignment # 0

\* Record.Type.load(memory, offset, context): asserts the alignment, then goes
\* through the fields in order, defining a property for each on `result`; for
\* an ObjectType field, `result` is the block's own `let result`, undefined at
\* that point, and Object.defineProperty(undefined, ...) raises a TypeError.
\* No byte is read or written.
RecordType_load(type, range, offset) ==
    IF Misaligned(range, offset, type.alignment)
    THEN "MemoryError"
    ELSE IF \E i \in 1 .. Len(type.fields) : type.fields[i].type.kind = "object"
         THEN "TypeError"
         ELSE "loaded"

\* SharedObject's constructor from `new` on: type.load(this.memoryRange, 0,
\* context); this.lock = this.access._lock.
SharedObject_load(type, range, bytes, calls) ==
    LET loaded == RecordType_load(type, range, 0)
    IN Outcome(IF loaded = "loaded"
               THEN Range("SharedObject", range.memory, range.ptr, range.size)
               ELSE Raise(loaded),
               bytes, calls \o <<"load">>)

\* new SharedObject(type, memory): the new mode, aligned_alloc returning p.
SharedObject_new(type, w, p) ==
    LET a == MemoryImpl_alloc(w, type.alignment, type.size, p)
    IN IF IsRange(a.out)
       THEN SharedObject_load(type, a.out, a.mem, <<"alloc">> \o a.calls)
       ELSE Outcome(a.out, a.mem, <<"alloc">> \o a.calls)

\* The existing mode refusing only ranges smaller than the record.
SharedObject_existingSmallerOnly(type, range) ==
    IF range.kind = "MemoryRange"
    THEN IF range.size < type.size
         THEN Outcome(Raise("ComponentModelTrap"), mem, <<>>)
         ELSE SharedObject_load(type, range, mem, <<>>)
    ELSE Outcome(Raise("ComponentModelTrap"), mem, <<>>)

\* new SharedObject(type, range): the existing mode; anything that is not a
\* MemoryRange (here a ReadonlyMemoryRange) is neither a range nor a memory.
SharedObject_existing(type, range) ==
    IF range.kind = "MemoryRange"
    THEN IF range.size # type.size
         THEN Outcome(Raise("ComponentModelTrap"), mem, <<>>)
         ELSE SharedObject_load(type, range, mem, <<>>)
    ELSE Outcome(Raise("ComponentModelTrap"), mem, <<>>)

\* The arguments of an operation, as kept with its outcome.
NoArgs ==
    [w |-> 0, align |-> 0, ptr |-> 0, size |-> 0, id |-> "none", type |-> "none",
     p |-> 0, kind |-> "none", src |-> 0, srcSize |-> 0, value |-> 0]

\* An operation has run: its name, arguments and outcome are kept.
Done(op, args, o) ==
    /\ res' = [op |-> op, args |-> args, out |-> o.out, calls |-> o.calls]
    /\ mem' = o.mem
    /\ nAllocs' = IF "aligned_alloc" \in {o.calls[i] : i \in 1 .. Len(o.calls)} /\ o.mem # mem
                  THEN nAllocs + 1 ELSE nAllocs
    /\ nWrites' = IF op \in {"copyWithin", "store"} THEN nWrites + 1 ELSE nWrites
    /\ UNCHANGED <<lockVars, sigVars, syncVars, rec, objVars>>

\* memory.alloc(align, size)
Alloc(w, align, size) ==
    \E p \in AlignedAllocReturns(align, size) :
        /\ p # 0 => nAllocs < MaxAllocs
        /\ Done("alloc",
                [NoArgs EXCEPT !.w = w, !.align = align, !.size = size, !.p = p],
                MemoryImpl_alloc(w, align, size, p))

\* memory.preAllocated(ptr, size)
PreAllocated(w, ptr, size) ==
    Done("preAllocated", [NoArgs EXCEPT !.w = w, !.ptr = ptr, !.size = size],
         MemoryImpl_preAllocated(w, ptr, size))

\* memory.readonly(ptr, size)
Readonly(w, ptr, size) ==
    Done("readonly", [NoArgs EXCEPT !.w = w, !.ptr = ptr, !.size = size],
         MemoryImpl_readonly(w, ptr, size))

\* MemoryLocation.to(memory, location), the location received from a peer.
LocationTo(w, location) ==
    Done("to",
         [NoArgs EXCEPT !.w = w, !.id = location.memory.id,
                        !.ptr = location.ptr, !.size = location.size],
         MemoryLocation_to(w, location))

\* MemoryLocation.to(memory, MemoryLocation.from(range)), the range being the
\* one the last operation returned.
LocationRoundTrip(w) ==
    /\ IsRange(res.out)
    /\ LET location == MemoryLocation_from(res.out)
       IN Done("roundTrip",
               [NoArgs EXCEPT !.w = w, !.id = location.memory.id,
                              !.ptr = location.ptr, !.size = location.size],
               MemoryLocation_to(w, location))

\* The sizes of the ranges copied between.
CopySizes == {u32.size, BaseType.size}

\* memory.copyWithin(dest, src), for ranges of the arena.
CopyWithin(w, dptr, dsize, sptr, ssize) ==
    /\ nWrites < MaxWrites
    /\ dptr + dsize <= BufLen
    /\ sptr + ssize <= BufLen
    /\ Done("copyWithin",
            [NoArgs EXCEPT !.w = w, !.ptr = dptr, !.size = dsize,
                           !.src = sptr, !.srcSize = ssize],
            MemoryImpl_copyWithin(w, Range("MemoryRange", w, dptr, dsize),
                                  Range("ReadonlyMemoryRange", w, sptr, ssize)))

\* memory.free(range), the range being the one the last operation returned.
Free(w) ==
    /\ res.out.kind = "MemoryRange"
    /\ \E raises \in BOOLEAN :
          Done("free",
               [NoArgs EXCEPT !.w = w, !.ptr = res.out.ptr, !.size = res.out.size,
                              !.p = ExportsFreeArgument(res.out),
                              !.kind = IF raises THEN "raises" ELSE "returns"],
               MemoryImpl_free(w, res.out, raises))

\* access[name] = value, on the record view of the object the last operation
\* constructed (which stays at hand); name is the i-th field.
FieldStore(i, value) ==
    /\ res.out.kind = "SharedObject"
    /\ nWrites < MaxWrites
    /\ i \in 1 .. Len(TypeOf(res.args.type).fields)
    /\ Done("store",
            [NoArgs EXCEPT !.w = res.out.memory, !.type = res.args.type,
                           !.ptr = res.out.ptr, !.size = res.out.size,
                           !.p = i, !.value = value],
            Outcome(res.out, RecordSet(mem, res.out, TypeOf(res.args.type), i, value), <<"store">>))

\* new SharedObject(type, memory)
ConstructNew(t, w) ==
    \E p \in AlignedAllocReturns(TypeOf(t).alignment, TypeOf(t).size) :
        /\ p # 0 => nAllocs < MaxAllocs
        /\ Done("new",
                [NoArgs EXCEPT !.w = w, !.type = t, !.align = TypeOf(t).alignment,
                               !.size = TypeOf(t).size, !.p = p],
                SharedObject_new(TypeOf(t), w, p))

\* new SharedObject(type, range), the range being the one the last operation
\* returned.
ConstructExisting(t) ==
    /\ IsRange(res.out)
    /\ Done("existing",
            [NoArgs EXCEPT !.w = res.out.memory, !.type = t, !.kind = res.out.kind,
                           !.ptr = res.out.ptr, !.size = res.out.size],
            SharedObject_existing(TypeOf(t), res.out))

MemoryInit ==
    /\ mem = [i \in Addresses |-> 255]
    /\ res = [op |-> "none", args |-> NoArgs, out |-> Raise("none"), calls |-> <<>>]
    /\ nAllocs = 0
    /\ nWrites = 0
    /\ rec = [built |-> FALSE, props |-> <<>>, type |-> RecordType(<<>>)]

\* ------------------------------------- constructors, second Lock objects
\* context?.mode of a constructor call on a MemoryRange: Mode.new,
\* Mode.existing, or no context at all.
Modes == {"new", "existing", "none"}

\* No Lock, or no Signal, has been constructed since the initial one.
NoCtor == [made |-> FALSE, isMemory |-> FALSE, mode |-> "none", found |-> 0,
           stored |-> FALSE]

\* A constructor call: its arguments, the value it found in the cell its
\* buffer views, and whether it stored its initial value there.
Ctor(isMemory, mode, found, stored) ==
    [made |-> TRUE, isMemory |-> isMemory, mode |-> mode, found |-> found,
     stored |-> stored]

\* Mutant of ConstructorStores: the constructors store whatever they are given.
ConstructorStoresAlways(isMemory, mode) == TRUE

\* The constructors' `if (isMemory || context?.mode === SharedObjectContext.Mode.new)`
\* that guards their Atomics.store.
ConstructorStores(isMemory, mode) == isMemory \/ mode = "new"

\* The constructor arguments: a SharedMemory (and then no context), or a
\* MemoryRange with a context in either mode or with none.
CtorArgs == {<<TRUE, "none">>} \cup ({FALSE} \X Modes)

\* new Lock(arg, context), as Lock.$Type.load calls it with a range over the
\* Lock's cell or as a caller does. With a SharedMemory the Lock allocates a
\* cell of its own (Lock.alloc, zero-filled) and stores 1 there: the shared
\* cell is not involved. With a MemoryRange over the shared cell it stores 1 into it in
\* mode new only. The new object starts with lockCount = 0; the agent calls
\* through it from now on, the object it used so far is set aside.
NewLock(a, isMemory, mode) ==
    /\ pc[a] \in {"idle", "body"}
    /\ other[a] = <<>>
    /\ ctor' = [ctor EXCEPT !.Lock = Ctor(isMemory, mode, IF isMemory THEN 0 ELSE cell,
                                         ConstructorStores(isMemory, mode))]
    /\ IF isMemory
       THEN UNCHANGED <<cell, lockCount, other>>
       ELSE /\ cell' = IF ConstructorStores(isMemory, mode) THEN 1 ELSE cell
            /\ other' = [other EXCEPT ![a] = <<lockCount[a]>>]
            /\ lockCount' = [lockCount EXCEPT ![a] = 0]
    /\ UNCHANGED <<pc, val, lockWaiters, counter, tmp, frames, exc, rounds, done, net,
                 sigVars, syncVars, memVars, ret>>

\* The agent makes its next calls through the other of its two Lock objects.
UseOtherLock(a) ==
    /\ pc[a] \in {"idle", "body"}
    /\ other[a] # <<>>
    /\ other' = [other EXCEPT ![a] = <<lockCount[a]>>]
    /\ lockCount' = [lockCount EXCEPT ![a] = other[a][1]]
    /\ UNCHANGED <<cell, pc, val, lockWaiters, counter, tmp, frames, exc, rounds, done, net,
                 sigVars, syncVars, memVars, ctor, ret>>

\* new Signal(arg, context): with a SharedMemory the Signal allocates a cell
\* of its own and stores 0 there; with a MemoryRange over the shared cell it
\* stores 0 into it in mode new only.
NewSignal(a, isMemory, mode) ==
    /\ spc[a] = "idle"
    /\ ctor' = [ctor EXCEPT !.Signal = Ctor(isMemory, mode, IF isMemory THEN 0 ELSE sig,
                                           ConstructorStores(isMemory, mode))]
    /\ sig' = IF ~isMemory /\ ConstructorStores(isMemory, mode) THEN 0 ELSE sig
    /\ UNCHANGED <<sigWaiters, spc, sres, prom, rcount, rwoke, ires, nStores,
                 lockVars, syncVars, memVars, other, ret>>

\* ------------------------------------------------------- specifications
Init ==
    /\ LockInit
    /\ SignalInit
    /\ spc = [a \in SigAgents |-> "idle"]
    /\ sres = [a \in SigAgents |-> "none"]
    /\ prom = [a \in SigAgents |-> "none"]
    /\ rcount = [a \in SigAgents |-> 0]
    /\ rwoke = [a \in SigAgents |-> 0]
    /\ ires = [a \in SigAgents |-> FALSE]
    /\ nStores = 0
    /\ pc = [a \in Agents |-> "idle"]
    /\ val = [a \in Agents |-> 0]
    /\ counter = 0
    /\ tmp = [a \in Agents |-> 0]
    /\ frames = [a \in Agents |-> <<>>]
    /\ exc = [a \in Agents |-> FALSE]
    /\ rounds = [a \in Agents |-> 0]
    /\ done = [a \in Agents |-> 0]
    /\ net = [a \in Agents |-> 0]
    /\ acc = [a \in Agents |-> "none"]
    /\ MemoryInit
    /\ other = [a \in Agents |-> <<>>]
    /\ ctor = [Lock |-> NoCtor, Signal |-> NoCtor]
    /\ ret = NoTrap

LockStep(a) ==
    \/ SharedObject_runLocked(a)
    \/ Synchronize_runLocked(a)
    \/ AcquireReentrant(a)
    \/ AcquireLoad(a)
    \/ AcquireCAS(a)
    \/ AcquireWait(a)
    \/ CallbackRead(a)
    \/ CallbackWrite(a)
    \/ CallbackReturn(a)
    \/ CallbackThrow(a)
    \/ ReleaseNested(a)
    \/ ReleaseAdd(a)
    \/ ReleaseNotify(a)
    \/ RunLockedExit(a)

Next == \E a \in Agents : LockStep(a)

\* Agents that call release() only to match their own acquire().
Spec == Init /\ [][Next]_vars

\* The same workload, every agent being a thread that keeps running: each
\* agent goes on with whatever step it can take (its next call included) until
\* its MaxRounds rounds are done. An agent suspended in Atomics.wait has no
\* step of its own.
FairSpec == Spec /\ \A a \in Agents : WF_vars(LockStep(a))

NextAny ==
    \E a \in Agents :
        \/ CallAcquire(a)
        \/ CallRelease(a)
        \/ AcquireReentrant(a)
        \/ AcquireLoad(a)
        \/ AcquireCAS(a)
        \/ AcquireWait(a)
        \/ ReleaseNested(a)
        \/ ReleaseAdd(a)
        \/ ReleaseNotify(a)
        \/ RunLockedExit(a)

\* Agents that call acquire() and release() in any order, matched or not.
SpecAny == Init /\ [][NextAny]_vars

\* A step of an agent that may construct a second Lock object over the cell
\* and call acquire() and release() through either object, release() only on
\* an object whose acquire() it has called.
AttachStep(a) ==
    \/ \E args \in CtorArgs : NewLock(a, args[1], args[2])
    \/ UseOtherLock(a)
    \/ CallAcquire(a)
    \/ lockCount[a] > 0 /\ CallRelease(a)
    \/ AcquireReentrant(a)
    \/ AcquireLoad(a)
    \/ AcquireCAS(a)
    \/ AcquireWait(a)
    \/ ReleaseNested(a)
    \/ ReleaseAdd(a)
    \/ ReleaseNotify(a)
    \/ RunLockedExit(a)

\* The agents that construct: two of them.
ConstructAgents == {a \in Agents : a <= 2}

NextAttach == \E a \in ConstructAgents : AttachStep(a)

\* Agents that attach further Lock objects to the cell they share.
SpecAttach == Init /\ [][NextAttach]_vars

\* A step of an agent that acquires and releases the Lock (not nested) and
\* may construct a second Lock object over its cell, which it then uses.
ConstructStep(a) ==
    \/ \E args \in CtorArgs : NewLock(a, args[1], args[2])
    \/ lockCount[a] = 0 /\ CallAcquire(a)
    \/ lockCount[a] > 0 /\ CallRelease(a)
    \/ AcquireLoad(a)
    \/ AcquireCAS(a)
    \/ AcquireWait(a)
    \/ ReleaseAdd(a)
    \/ ReleaseNotify(a)
    \/ RunLockedExit(a)

\* A Signal has no state of its own besides the cell: the calls on the shared
\* Signal's cell (constructions over it, resolve) are those of one agent.
NextConstruct ==
    \/ \E a \in ConstructAgents : ConstructStep(a)
    \/ \E args \in CtorArgs : NewSignal(1, args[1], args[2])
    \/ \E count \in Counts : SignalStore(1, count)
    \/ SignalNotify(1)
    \/ SignalReturn(1)

\* Agents that construct Locks and Signals over cells in use.
SpecConstruct == Init /\ [][NextConstruct]_vars

\* A step of an operation already begun (not a new call).
SignalContinue(a) ==
    \/ SignalWaitCheck(a)
    \/ SignalWaitAsyncCheck(a)
    \/ PromiseThen(a)
    \/ SignalNotify(a)
    \/ SignalReturn(a)

NextSignal ==
    \E a \in SigAgents :
        \/ SignalWait(a)
        \/ SignalWaitAsync(a)
        \/ SignalIsResolved(a)
        \/ \E count \in Counts : SignalStore(a, count)
        \/ SignalContinue(a)

\* Agents that call wait, waitAsync, isResolved and resolve on one Signal.
SpecSignal == Init /\ [][NextSignal]_vars

\* The same, every agent being a thread that keeps running: an operation it
\* has begun goes on. Nothing obliges an agent to begin another call.
FairSpecSignal ==
    SpecSignal /\ \A a \in SigAgents : WF_vars(SignalContinue(a))

\* Agents that call wait, waitAsync and resolve on one Signal, every agent a
\* thread that keeps running and that returns to its event loop again and
\* again: a settled promise's reaction runs once the agent's stack is empty.
NextAsync ==
    \E a \in SigAgents :
        \/ SignalWait(a)
        \/ SignalWaitAsync(a)
        \/ \E count \in Counts : SignalStore(a, count)
        \/ SignalContinue(a)

FairSpecAsync ==
    /\ Init /\ [][NextAsync]_vars
    /\ \A a \in SigAgents : WF_vars(SignalContinue(a)) /\ SF_vars(PromiseThen(a))

\* Agents that acquire and release the Lock and wait on the Signal, over a
\* primitive that may answer an atomic wait with "timed-out" (which, no
\* timeout being passed, the real one never does).
NextTimeout ==
    \/ \E a \in Agents :
          \/ lockCount[a] = 0 /\ CallAcquire(a)
          \/ lockCount[a] > 0 /\ CallRelease(a)
          \/ AcquireLoad(a)
          \/ AcquireCAS(a)
          \/ AcquireWait(a)
          \/ AcquireWaitTimesOut(a)
          \/ AcquireRetry(a)
          \/ ReleaseAdd(a)
          \/ ReleaseNotify(a)
          \/ RunLockedExit(a)
    \/ \E a \in SigAgents :
          \/ SignalWait(a)
          \/ SignalWaitTimesOut(a)
          \/ SignalWaitCheck(a)
          \/ SignalWaitAsync(a)
          \/ SignalWaitAsyncTimesOut(a)
          \/ SignalWaitAsyncCheck(a)
          \/ PromiseTimesOut(a)
          \/ PromiseThen(a)

SpecTimeout == Init /\ [][NextTimeout]_vars

\* A step of an agent that uses the target through a Synchronize wrapper only.
SyncStep(a) ==
    \/ \E p \in Props : ProxyGet(a, p)
    \/ \E p \in Props : ProxySet(a, p)
    \/ CanCall(a) /\ Synchronize_runLocked(a)
    \/ TargetGet(a)
    \/ TargetSet(a)
    \/ TargetThrow(a)
    \/ MethodRead(a)
    \/ MethodWrite(a)
    \/ AcquireReentrant(a)
    \/ AcquireLoad(a)
    \/ AcquireCAS(a)
    \/ AcquireWait(a)
    \/ acc[a] = "none" /\ CallbackRead(a)
    \/ CallbackWrite(a)
    \/ CallbackReturn(a)
    \/ CallbackThrow(a)
    \/ ReleaseNested(a)
    \/ ReleaseAdd(a)
    \/ ReleaseNotify(a)
    \/ RunLockedExit(a)

\* The agents that hold a Synchronize wrapper: two of them.
SyncAgents == {a \in Agents : a <= 2}

NextSync == \E a \in SyncAgents : SyncStep(a)

\* Two agents that share one target, each through its own Synchronize wrapper
\* over the same Lock cell.
SpecSync == Init /\ [][NextSync]_vars

NextMemory ==
    \/ \E w \in Wrappers, align \in Alignments, size \in AllocSizes : Alloc(w, align, size)
    \/ \E w \in Wrappers, ptr \in Ptrs, size \in Sizes : PreAllocated(w, ptr, size)
    \/ \E w \in Wrappers, ptr \in Ptrs, size \in Sizes : Readonly(w, ptr, size)
    \/ \E w \in Wrappers, location \in Locations : LocationTo(w, location)
    \/ \E w \in Wrappers : LocationRoundTrip(w)
    \/ \E t \in TypeNames, w \in Wrappers : ConstructNew(t, w)
    \/ \E t \in TypeNames : ConstructExisting(t)

\* One agent's operations on a SharedMemory, its ranges and locations, and the
\* construction of SharedObjects in it.
SpecMemory == Init /\ [][NextMemory]_vars

NextBytes ==
    \/ \E align \in Alignments, size \in AllocSizes : Alloc(1, align, size)
    \/ \E t \in TypeNames : ConstructNew(t, 1)
    \/ \E t \in TypeNames : ConstructExisting(t)
    \/ \E dptr \in Ptrs, sptr \in Ptrs, dsize \in CopySizes, ssize \in CopySizes :
          CopyWithin(1, dptr, dsize, sptr, ssize)
    \/ Free(1)
    \/ \E i \in 1 .. MaxFields, value \in Values : FieldStore(i, value)

\* One agent's operations, through its wrapper, that write the bytes of the
\* arena: allocations, copies, and stores through the record views it has
\* loaded; and the freeing of what it allocated.
SpecBytes == Init /\ [][NextBytes]_vars

NextRecord == NewRecordType

\* The construction of a Record.Type from any property list.
SpecRecord == Init /\ [][NextRecord]_vars

\* ----------------------------------------------------------- Lock claims
RECURSIVE SumUpTo(_, _)
SumUpTo(f, n) == IF n = 0 THEN 0 ELSE f[n] + SumUpTo(f, n - 1)

\* The agent is past a successful compare-exchange and has not yet left the
\* release() that ends the hold: its Lock object's counter is not 0.
InHold(a) == lockCount[a] > 0

\* The agent has executed the Atomics.add of its final release().
PastFinalAdd(a) == pc[a] = "notify"

AllFinished == \A a \in Agents : pc[a] = "idle" /\ rounds[a] = MaxRounds

\* C1 as stated: at most one agent at a time has returned from a
\* non-reentrant acquire() and not yet completed the matching final release().
C1_OneAgentInHold == Cardinality({a \in Agents : InHold(a)}) <= 1

\* C1 amended: at most one agent at a time has returned from a non-reentrant
\* acquire() and not yet executed the Atomics.add of the matching final
\* release().
C1_MutualExclusion ==
    Cardinality({a \in Agents : InHold(a) /\ ~PastFinalAdd(a)}) <= 1

\* C1 witness: one agent is in its critical section while another, having
\* found the lock taken, is suspended in acquire().
C1_Witness ==
    \E a, b \in Agents : a # b /\ pc[a] = "write" /\ InHold(a) /\ pc[b] = "blocked"

\* C2: the shared counter always equals the number of critical sections whose
\* increment has been written, and equals N*M once every agent has finished
\* its M runLocked calls.
C2_NoLostUpdates ==
    /\ counter = SumUpTo(done, NumAgents)
    /\ AllFinished => counter = NumAgents * MaxRounds

\* C2 witness: every agent has finished and the counter is N*M.
C2_Witness == AllFinished /\ counter = NumAgents * MaxRounds

\* C3: an agent that calls acquire() with local counter n >= 1 returns at once
\* with counter n+1; the step neither reads nor writes the shared cell and
\* does not suspend the agent.
C3_ReentrantAcquire ==
    [][\A a \in Agents :
          (pc[a] = "acq" /\ lockCount[a] >= 1 /\ pc'[a] # pc[a]) =>
              /\ lockCount'[a] = lockCount[a] + 1
              /\ pc'[a] = "body"
              /\ cell' = cell
              /\ val'[a] = val[a]
              /\ lockWaiters' = lockWaiters]_vars

\* C3 witness: a holder has re-entered, its local counter is 2.
C3_Witness == \E a \in Agents : pc[a] = "body" /\ lockCount[a] = 2

\* C4: the cell is never negative, and it is lowered only by a successful
\* compare-exchange of acquire() from an observed value v > 0 to v-1.
C4_CellNeverNegative ==
    /\ [](cell >= 0)
    /\ [][cell' < cell =>
             \E a \in Agents :
                 /\ pc[a] = "cas" /\ val[a] > 0 /\ cell = val[a]
                 /\ cell' = val[a] - 1
                 /\ pc'[a] = "body"]_vars

\* C4 witness: an agent observed the value 0, did not lower the cell and went
\* on to wait, while another holds the lock.
C4_Witness ==
    \E a, b \in Agents :
        a # b /\ pc[a] = "wait" /\ val[a] = 0 /\ cell = 0 /\ lockCount[b] = 1

AtExit(a) == pc[a] = "exit" /\ frames[a] # <<>>

\* C5 as stated: at the step that ends runLocked's release, the caller's
\* local counter and the shared cell have the values they had before the call.
C5_CellAsBeforeCall ==
    [][\A a \in Agents :
          (frames[a] # <<>> /\ pc[a] # "exit" /\ pc'[a] = "exit") =>
              (lockCount'[a] = Top(a).lc /\ cell' = Top(a).cell)]_vars

\* C5 amended: when runLocked exits, normally or by a throw, the caller's local
\* counter has the value it had before the call and the caller's own steps
\* have changed the shared cell by a net of 0 (the cell itself is as before
\* when the caller already held the lock); a pending exception stays pending
\* through the release and is still pending at the exit.
C5_GuaranteedRelease ==
    /\ [](\A a \in Agents :
            AtExit(a) =>
                /\ lockCount[a] = Top(a).lc
                /\ net[a] = Top(a).net
                /\ Top(a).lc >= 1 => cell = Top(a).cell)
    /\ [][\A a \in Agents :
            (exc[a] /\ pc[a] \in {"rel", "notify"}) =>
                (exc'[a] /\ pc'[a] \in {"rel", "notify", "exit"})]_vars

\* C5 witness: a runLocked whose callback threw is at its exit, the exception
\* pending and the caller's counter restored.
C5_Witness ==
    \E a \in Agents : AtExit(a) /\ exc[a] /\ lockCount[a] = Top(a).lc

\* --------------------------------------------------------- Signal claims
Stored == nStores >= 1

\* C6: no wait() has returned, no waitAsync() has returned synchronously and
\* no waitAsync() promise is fulfilled unless a resolve() has already stored 1
\* into the cell.
C6_WaitOnlyAfterResolve ==
    \A a \in SigAgents :
        (spc[a] \in {"w_ret", "wa_ret"} \/ prom[a] = "fulfilled") =>
            (Stored /\ sig = 1)

\* C6 witness: one agent's wait() is returning and another agent's waitAsync()
\* promise is fulfilled.
C6_Witness ==
    \E a, b \in SigAgents : spc[a] = "w_ret" /\ prom[b] = "fulfilled"

\* The step in which agent a's isResolved() reads the cell.
IsResolvedStep(a) == spc[a] = "idle" /\ spc'[a] = "ir_ret"

\* C7: the cell only ever holds 0 or 1 and never goes back from 1 to 0;
\* isResolved() returns false before the first store of a resolve() and true
\* after it, changes nothing and does not suspend the caller.
C7_OneShotMonotonic ==
    /\ [](sig \in {0, 1})
    /\ [][sig = 1 => sig' = 1]_vars
    /\ [][\A a \in SigAgents :
            IsResolvedStep(a) =>
                /\ ires'[a] = Stored
                /\ sig' = sig
                /\ sigWaiters' = sigWaiters]_vars

\* C7 witness: one isResolved() has read false (before the first resolve) and
\* another has read true (after it).
C7_Witness ==
    \E a, b \in SigAgents :
        /\ spc[a] = "ir_ret" /\ ~ires[a]
        /\ spc[b] = "ir_ret" /\ ires[b]

\* The step in which agent a calls wait().
WaitCallStep(a) == spc[a] = "idle" /\ spc'[a] \in {"w_chk", "w_blocked"}

\* A wait() started after the store returns without blocking.
WaitAfterStoreDoesNotBlock ==
    [][\A a \in SigAgents : (Stored /\ WaitCallStep(a)) => spc'[a] = "w_chk"]_vars

\* C8 as stated: once a resolve(count) with any count >= 1, or none, has stored
\* 1, every agent blocked in wait() eventually returns from it, and a wait()
\* started after the store does not block.
C8_EveryBlockedWaiterReturns ==
    /\ \A a \in SigAgents :
          (/\ spc[a] = "w_blocked"
           /\ \E b \in SigAgents : spc[b] = "r_notify" /\ rcount[b] >= 1)
              ~> (spc[a] = "w_ret")
    /\ WaitAfterStoreDoesNotBlock

\* C8 amended: once a resolve(count) has stored 1 and its count is unspecified
\* or at least the number of waiters then queued on the cell, every agent
\* blocked in wait() eventually returns from it without a further resolve();
\* a wait() started after the store does not block.
C8_BlockedWaiterReturnsWhenCountCovers ==
    /\ \A a \in SigAgents :
          (/\ spc[a] = "w_blocked"
           /\ \E b \in SigAgents :
                  spc[b] = "r_notify" /\ rcount[b] >= Len(sigWaiters))
              ~> (spc[a] = "w_ret")
    /\ WaitAfterStoreDoesNotBlock

\* C8 witness: a resolve() has woken more waiters than any explicit count
\* allows (its count was unspecified), and a woken agent's wait() is returning.
C8_Witness ==
    \E a, b \in SigAgents :
        /\ spc[b] = "r_ret" /\ rwoke[b] > MaxNotify
        /\ spc[a] = "w_ret"

\* C9: the notify of a resolve() without a count releases every waiter queued
\* at that moment, suspended agents and pending waitAsync promises alike, and
\* no waiter joins the queue once a store has happened (so these are all the
\* waiters there were when resolve() began).
C9_ResolveWakesAll ==
    /\ [][\A b \in SigAgents :
            (spc[b] = "r_notify" /\ rcount[b] = Infinity /\ spc'[b] = "r_ret") =>
                /\ sigWaiters' = <<>>
                /\ \A i \in 1 .. Len(sigWaiters) :
                       IF sigWaiters[i][2] = "sync"
                       THEN /\ spc'[sigWaiters[i][1]] = "w_chk"
                            /\ sres'[sigWaiters[i][1]] = "ok"
                       ELSE prom'[sigWaiters[i][1]] = "notified"]_vars
    /\ [][Stored => Len(sigWaiters') <= Len(sigWaiters)]_vars

\* C9 witness: one resolve() without a count has just woken all the waiters,
\* more of them than any explicit count allows.
C9_Witness ==
    \E b \in SigAgents :
        spc[b] = "r_ret" /\ rwoke[b] > MaxNotify /\ sigWaiters = <<>>

\* C10: wait() and waitAsync() never raise, and no waitAsync() promise is
\* rejected, however many times resolve() is called.
C10_WaitNeverRaises ==
    \A a \in SigAgents : spc[a] # "raised" /\ prom[a] # "rejected"

\* C10 witness: after a second resolve(), a wait() is returning normally.
C10_Witness ==
    nStores >= 2 /\ \E a \in SigAgents : spc[a] = "w_ret"

\* C11 as stated: waitAsync() on a cell that holds 1 completes synchronously
\* (no promise, no waiter queued); on a cell that holds 0 it hands back a
\* pending promise without suspending the caller; the promise is fulfilled
\* only after a later resolve(), and always after one (any count >= 1 or none).
C11_PromiseFulfilledAfterAnyResolve ==
    \A a \in SigAgents :
        (/\ prom[a] = "pending"
         /\ \E b \in SigAgents : spc[b] = "r_notify" /\ rcount[b] >= 1)
            ~> (prom[a] = "fulfilled")

\* The step in which agent a's waitAsync() takes the synchronous path.
WaitAsyncSyncStep(a) == spc[a] = "idle" /\ spc'[a] = "wa_chk"

\* The step in which agent a's waitAsync() hands back a pending promise.
WaitAsyncPendingStep(a) == prom[a] # "pending" /\ prom'[a] = "pending"

\* C11 amended: as stated, except that the pending promise is fulfilled after
\* a later resolve() whose count is unspecified or at least the number of
\* waiters then queued on the cell.
C11_WaitAsyncNeverBlocks ==
    /\ [][\A a \in SigAgents :
            /\ WaitAsyncSyncStep(a) =>
                   /\ sig = 1
                   /\ prom'[a] = prom[a]
                   /\ sigWaiters' = sigWaiters
            /\ WaitAsyncPendingStep(a) =>
                   /\ sig = 0 /\ ~Stored
                   /\ spc[a] = "idle" /\ spc'[a] = "idle"
                   /\ sigWaiters' = Append(sigWaiters, <<a, "async">>)
            /\ spc[a] = "wa_chk" /\ spc'[a] # "wa_chk" => spc'[a] = "wa_ret"]_vars
    /\ [](\A a \in SigAgents : prom[a] \in {"notified", "fulfilled"} => Stored)
    /\ \A a \in SigAgents :
          (/\ prom[a] = "pending"
           /\ \E b \in SigAgents :
                  spc[b] = "r_notify" /\ rcount[b] >= Len(sigWaiters))
              ~> (prom[a] = "fulfilled")

\* C11 witness: one agent's promise, pending since before the resolve(), is
\* fulfilled, and another agent's waitAsync(), called after it, is returning
\* synchronously.
C11_Witness ==
    \E a, b \in SigAgents : a # b /\ prom[a] = "fulfilled" /\ spc[b] = "wa_ret"

\* ---------------------------------------------------- Synchronize claims
\* The step in which an operation agent a made through its wrapper reads,
\* writes or runs code of the target: the read of the get trap, the write of
\* the set trap, the body of a method called through func, the body of a
\* function the get trap handed back.
TouchesTarget(a) ==
    \/ pc[a] = "body" /\ acc[a] \in {"get", "getFunction", "set"} /\ pc'[a] = "rel"
    \/ pc[a] = "body" /\ pc'[a] = "write"
    \/ pc[a] = "write" /\ pc'[a] = "ret"
    \/ acc[a] = "invoke" /\ acc'[a] = "invoked"
    \/ acc[a] = "invoked" /\ acc'[a] = "none"

\* The agent has the lock: it is past a successful compare-exchange (or a
\* re-entry) and before the Atomics.add of its final release().
HoldsLock(a) == lockCount[a] >= 1 /\ ~PastFinalAdd(a)

\* C12, the bracketing it states: every read of a data property, every write
\* of one and every method invocation made through a Synchronize wrapper is
\* performed on the target while the wrapper's lock is held by the calling
\* agent, and when the access has completed, normally or by throwing, the
\* caller's local lock counter is back to its value before the access.
C12_SynchronizeBracketing ==
    [][\A a \in SyncAgents :
          /\ TouchesTarget(a) => HoldsLock(a)
          /\ (frames[a] # <<>> /\ pc[a] # "exit" /\ pc'[a] = "exit") =>
                 lockCount'[a] = Top(a).lc]_vars

\* The callback of agent a's runLocked (or the body of a method it called
\* through func) is running: the acquire has returned and the callback has
\* not yet exited; operations nested in it may be under way.
InCallback(a) ==
    \/ Len(frames[a]) >= 2
    \/ /\ Len(frames[a]) = 1
       /\ pc[a] \in {"body", "write", "ret"}
       /\ acc[a] \notin {"get", "getFunction", "set"}

\* C13: from the start to the end of a runLocked callback the caller holds the
\* lock: the cell stays 0 whatever reads, writes, calls and nested runLocked
\* the callback makes, directly or through the wrapper, and no other agent
\* holds or acquires the lock.
C13_LockHeldThroughCallback ==
    /\ [](\A a \in SyncAgents :
            InCallback(a) =>
                /\ lockCount[a] >= 1
                /\ cell = 0
                /\ \A b \in SyncAgents \ {a} : ~HoldsLock(b) /\ ~InCallback(b))
    /\ [][\A a \in SyncAgents :
            InCallback(a) =>
                /\ cell' = cell
                /\ \A b \in SyncAgents \ {a} : lockCount'[b] <= lockCount[b]]_vars

\* C13 witness: inside its callback an agent has read a property through the
\* wrapper, the trap's release has brought its counter back to 1 and the cell
\* is still 0, while the other agent is suspended in acquire().
C13_Witness ==
    \E a, b \in SyncAgents :
        /\ a # b
        /\ Len(frames[a]) = 2 /\ pc[a] = "exit" /\ lockCount[a] = 1 /\ cell = 0
        /\ pc[b] = "blocked"

\* --------------------------------------------------- SharedObject claims
\* The record type has a field of an ObjectType (the embedded _lock).
HasObjectField(t) ==
    \E i \in 1 .. Len(TypeOf(t).fields) : TypeOf(t).fields[i].type.kind = "object"

\* The constructor was given what the scenario gives it: a memory whose
\* allocator returned a block, or a MemoryRange of the record's size at an
\* aligned address.
WellFormedConstruction ==
    \/ res.op = "new" /\ res.args.p # 0
    \/ /\ res.op = "existing"
       /\ res.args.size = TypeOf(res.args.type).size
       /\ res.args.ptr % TypeOf(res.args.type).alignment = 0
       /\ res.calls = <<"load">>

\* C14: in the scenario, the 16-byte record {_size, _id, _lock, payload} is
\* constructed in new mode by one agent and attached in existing mode by a
\* second one, and both then run their increments on the object they got: each
\* of the two constructions yields a SharedObject over a 16-byte range.
C14_ScenarioObjectsConstructed ==
    (WellFormedConstruction /\ res.args.type = "payload")
        => (res.out.kind = "SharedObject" /\ res.out.size = 16)

\* C15: constructing a SharedObject in new mode succeeds, having allocated
\* type.size bytes with type.alignment, and the cell of the embedded Lock
\* holds 1 (unlocked) in the block.
C15_NewModeLeavesLockUnlocked ==
    (res.op = "new" /\ res.args.p # 0 /\ HasObjectField(res.args.type))
        => /\ res.out.kind = "SharedObject"
           /\ res.out.ptr = res.args.p
           /\ res.out.size = TypeOf(res.args.type).size
           /\ res.args.align = TypeOf(res.args.type).alignment
           /\ \E i \in 1 .. Len(TypeOf(res.args.type).fields) :
                 /\ TypeOf(res.args.type).fields[i].name = "_lock"
                 /\ ReadU32(mem, res.out.ptr + TypeOf(res.args.type).fields[i].offset) = 1

\* C16: constructing a SharedObject in existing mode from a MemoryRange whose
\* size differs from type.size raises the trap with no byte of the buffer
\* changed and load not called; load is called exactly when the sizes are equal.
C16_SizeMismatchTrapsBeforeLoad ==
    [][(res'.op = "existing" /\ res'.args.kind = "MemoryRange")
        => /\ mem' = mem
           /\ res'.args.size # TypeOf(res'.args.type).size
                => (res'.out.kind = "ComponentModelTrap" /\ res'.calls = <<>>)
           /\ res'.args.size = TypeOf(res'.args.type).size
                => (res'.calls = <<"load">> /\ res'.out.kind # "ComponentModelTrap")]_vars

C16_Witness ==
    /\ res.op = "existing"
    /\ res.args.kind = "MemoryRange"
    /\ res.args.size > TypeOf(res.args.type).size
    /\ res.out.kind = "ComponentModelTrap"

\* ------------------------------------------------- MemoryLocation claims
\* C17: MemoryLocation.to(m', MemoryLocation.from(r)), m' a wrapper with the
\* id of r's memory, returns a range with r's ptr and size, and no byte of the
\* arena is changed.
C17_LocationRoundTrip ==
    [][res'.op = "roundTrip"
        => /\ res'.out.kind = "MemoryRange"
           /\ res'.out.ptr = res.out.ptr
           /\ res'.out.size = res.out.size
           /\ res'.out.memory = res'.args.w
           /\ mem' = mem]_vars

C17_Witness ==
    /\ res.op = "roundTrip"
    /\ res.out.kind = "MemoryRange"
    /\ res.out.ptr > 0
    /\ res.out.size > 0

\* C18: MemoryLocation.to(memory, location) raises whenever
\* location.memory.id differs from memory.id, whatever ptr and size are, and
\* then returns no range and calls neither preAllocated nor the allocator.
C18_LocationMismatchRaises ==
    (res.op = "to" /\ res.args.id # WrapperId(res.args.w))
        => (res.out.kind = "MemoryError" /\ res.calls = <<>>)

C18_Witness ==
    /\ res.op = "to"
    /\ res.args.id # WrapperId(res.args.w)
    /\ res.args.ptr + res.args.size <= BufLen
    /\ res.out.kind = "MemoryError"

\* ------------------------------------------------- SharedMemory claims
\* C19: preAllocated(ptr, size), readonly(ptr, size) and MemoryLocation.to
\* (for a location of the memory's arena) raise whenever ptr + size exceeds
\* buffer.byteLength and otherwise return a range with exactly the given ptr
\* and size, so every range they return ends inside the buffer.
C19_RangeBounds ==
    (\/ res.op \in {"preAllocated", "readonly"}
     \/ res.op = "to" /\ res.args.id = WrapperId(res.args.w))
        => /\ res.args.ptr + res.args.size > BufLen => res.out.kind = "MemoryError"
           /\ res.args.ptr + res.args.size <= BufLen
                => /\ IsRange(res.out)
                   /\ res.out.ptr = res.args.ptr
                   /\ res.out.size = res.args.size
           /\ IsRange(res.out) => res.out.ptr + res.out.size <= BufLen

C19_Witness ==
    /\ res.op = "preAllocated"
    /\ res.args.ptr + res.args.size = BufLen
    /\ res.args.size > 0
    /\ IsRange(res.out)

\* C20: when the allocator returns a non-null p, alloc returns a range with
\* ptr = p and the requested size that lies inside the buffer; every byte of
\* [p, p + size) is zero on return and no byte outside it has changed.
C20_AllocZeroFilled ==
    [][(res'.op = "alloc" /\ res'.args.p # 0)
        => /\ res'.out.kind = "MemoryRange"
           /\ res'.out.ptr = res'.args.p
           /\ res'.out.size = res'.args.size
           /\ 0 <= res'.out.ptr /\ res'.out.ptr + res'.out.size <= BufLen
           /\ \A i \in Addresses :
                 IF res'.out.ptr <= i /\ i < res'.out.ptr + res'.out.size
                 THEN mem'[i] = 0
                 ELSE mem'[i] = mem[i]]_vars

C20_Witness ==
    /\ res.op = "alloc"
    /\ res.out.kind = "MemoryRange"
    /\ res.out.size > 1
    /\ \A i \in Addresses :
          mem[i] = IF res.out.ptr <= i /\ i < res.out.ptr + res.out.size THEN 0 ELSE 255

\* C21: when aligned_alloc returns the null address, alloc raises, returns no
\* range, changes no byte of the buffer and has called aligned_alloc once.
C21_AllocNullRaises ==
    [][(res'.op = "alloc" /\ res'.args.p = 0)
        => /\ res'.out.kind = "Error"
           /\ ~IsRange(res'.out)
           /\ res'.calls = <<"aligned_alloc", "console.error">>
           /\ mem' = mem]_vars

C21_Witness ==
    /\ res.op = "alloc"
    /\ res.args.p = 0
    /\ res.args.size > 0
    /\ res.out.kind = "Error"

\* C22: copyWithin(dest, src) honours both ranges' bounds, also when src is
\* larger than dest: the bytes of dest it writes are those of src, in order,
\* and no byte outside [dest.ptr, dest.ptr + dest.size) is changed.
C22_CopyWithinHonoursBounds ==
    [][res'.op = "copyWithin"
        => \A i \in Addresses :
             IF res'.args.ptr <= i /\ i < res'.args.ptr + res'.args.size
             THEN i - res'.args.ptr < res'.args.srcSize
                    => mem'[i] = mem[res'.args.src + (i - res'.args.ptr)]
             ELSE mem'[i] = mem[i]]_vars

\* C23: free(range) calls the export free once, with range.ptr; when the
\* export raises, free logs and raises the same error, and otherwise returns;
\* free changes no byte of the buffer.
C23_FreeCallsExportOnce ==
    [][res'.op = "free"
        => /\ res'.args.p = res.out.ptr
           /\ res'.args.kind = "raises"
                => (res'.out.kind = "RuntimeError" /\ res'.calls = <<"free", "console.error">>)
           /\ res'.args.kind = "returns"
                => (res'.out.kind = "undefined" /\ res'.calls = <<"free">>)
           /\ mem' = mem]_vars

C23_Witness ==
    /\ res.op = "free"
    /\ res.args.kind = "raises"
    /\ res.args.ptr > 0
    /\ res.out.kind = "RuntimeError"

\* ----------------------------------------------------- Record.Type claims
Fields == rec.type.fields

Constructed == rec.built /\ ~rec.type.trap

\* C24: in a Record.Type built from fields of alignments 1, 2, 4, 8 and
\* positive sizes, in any order, every offset is a non-negative multiple of
\* its field's alignment, offsets do not decrease in declaration order, and no
\* two fields' intervals [offset, offset + size) overlap.
C24_RecordLayout ==
    Constructed
        => /\ Len(Fields) = Len(rec.props)
           /\ \A i \in 1 .. Len(Fields) :
                 /\ Fields[i].name = rec.props[i][1] /\ Fields[i].type = rec.props[i][2]
                 /\ Fields[i].offset >= 0
                 /\ Fields[i].offset % Fields[i].type.alignment = 0
           /\ \A i, j \in 1 .. Len(Fields) :
                 i < j => /\ Fields[i].offset <= Fields[j].offset
                          /\ Fields[i].offset + Fields[i].type.size <= Fields[j].offset

\* C24 witness: three fields, with padding in front of the second and of the
\* third.
C24_Witness ==
    /\ Constructed
    /\ Len(Fields) = 3
    /\ Fields[2].offset > Fields[1].offset + Fields[1].type.size
    /\ Fields[3].offset > Fields[2].offset + Fields[2].type.size

\* The running offset after the last field.
RunningOffset ==
    IF Fields = <<>> THEN 0
    ELSE Fields[Len(Fields)].offset + Fields[Len(Fields)].type.size

\* C25: the size of a Record.Type is the running offset after the last field
\* (0 for the empty record), with no trailing padding.
C25_SizeIsRunningOffset == Constructed => rec.type.size = RunningOffset

\* C25 witness: a record whose last field ends off the record's alignment.
C25_Witness ==
    /\ Constructed
    /\ Len(Fields) >= 2
    /\ RunningOffset % rec.type.alignment # 0
    /\ rec.type.size = RunningOffset

\* C26 as stated: the size is the final running offset rounded up to the
\* type's alignment, so a multiple of that alignment.
C26_SizeRoundedUp ==
    Constructed
        => /\ rec.type.size = Align(RunningOffset, rec.type.alignment)
           /\ rec.type.size % rec.type.alignment = 0

\* C26 amended: the type's alignment is the maximum of its fields'
\* alignments (1 for none) and the size is the final running offset, not
\* rounded: it is a multiple of the type's alignment when the last field has
\* that alignment and a size that is a multiple of it, and rounding it up
\* would add fewer than alignment bytes.
C26_SizeNotRounded ==
    Constructed
        => /\ \A i \in 1 .. Len(Fields) : Fields[i].type.alignment <= rec.type.alignment
           /\ \/ Fields = <<>> /\ rec.type.alignment = 1
              \/ \E i \in 1 .. Len(Fields) : Fields[i].type.alignment = rec.type.alignment
           /\ rec.type.size <= Align(RunningOffset, rec.type.alignment)
           /\ Align(RunningOffset, rec.type.alignment) - rec.type.size < rec.type.alignment
           /\ (/\ Fields # <<>>
               /\ Fields[Len(Fields)].type.alignment = rec.type.alignment
               /\ Fields[Len(Fields)].type.size % rec.type.alignment = 0)
                => rec.type.size % rec.type.alignment = 0

\* C26 witness: a record of alignment 4 that ends with a 3-byte field, its
\* size not a multiple of 4.
C26_Witness ==
    /\ Constructed
    /\ rec.type.alignment = 4
    /\ Len(Fields) >= 2
    /\ Fields[Len(Fields)].type.size = 3
    /\ rec.type.size % 4 # 0

\* Some name occurs twice in the combined property list.
HasDuplicate == \E i, j \in 1 .. Len(rec.props) : i < j /\ rec.props[i][1] = rec.props[j][1]

\* C27: the constructor raises, producing no type, exactly when the combined
\* list of all the property arrays passed holds a name twice.
C27_DuplicateNamesRaise == rec.built => (rec.type.trap <=> HasDuplicate)

\* C27 witness: the first and the third property have the same name, the
\* second another; the constructor raised.
C27_Witness ==
    /\ rec.built
    /\ Len(rec.props) = 3
    /\ rec.props[1][1] = rec.props[3][1]
    /\ rec.props[1][1] # rec.props[2][1]
    /\ rec.type.trap

\* C28: after v is written to a ValueType field through a loaded record view,
\* the field read through that view, or through a view loaded over the same
\* bytes by way of any wrapper of the arena, is v, and no byte outside the
\* field's interval [base + offset, base + offset + size) has changed.
C28_WriteThrough ==
    [][res'.op = "store"
        => LET type == TypeOf(res'.args.type)
               field == type.fields[res'.args.p]
               first == res'.args.ptr + field.offset
           IN /\ \A w \in Wrappers :
                    RecordGet(mem', Range("SharedObject", w, res'.args.ptr, res'.args.size),
                              type, res'.args.p) = res'.args.value
              /\ \A i \in Addresses :
                    (i < first \/ i >= first + field.type.size) => mem'[i] = mem[i]]_vars

\* C28 witness: 258 was stored to the second field of a pair, whose bytes are
\* now 2, 1, 0, 0, the first field still zero from the allocation.
C28_Witness ==
    /\ res.op = "store"
    /\ res.args.type = "pair"
    /\ res.args.p = 2
    /\ res.args.value = 258
    /\ mem[res.args.ptr + 4] = 2 /\ mem[res.args.ptr + 5] = 1
    /\ RecordGet(mem, res.out, PairType, 1) = 0

\* C29: loading a record that has an ObjectType field (an embedded Lock)
\* succeeds: whenever the constructor has called load for such a type on an
\* aligned range of the record's size, it has the record view and the object
\* is constructed.
C29_LoadWithObjectFieldSucceeds ==
    (/\ res.op \in {"new", "existing"}
     /\ res.calls # <<>>
     /\ res.calls[Len(res.calls)] = "load"
     /\ HasObjectField(res.args.type)
     /\ (res.op = "new" => res.args.p % TypeOf(res.args.type).alignment = 0)
     /\ (res.op = "existing" => res.args.ptr % TypeOf(res.args.type).alignment = 0))
        => res.out.kind # "TypeError"

\* ------------------------------------------------------ Lock.release claims
\* C30: for a holder (local counter n >= 1), the cell is changed only by the
\* release() that takes the counter from 1 to 0, which adds exactly 1 to the
\* cell and then wakes one waiter (if there is one); a release() with counter
\* above 1 only decrements the counter, leaving the cell and the waiters as
\* they are; so the cell is unchanged over nested acquires and their releases
\* (it stays at 0 for as long as the lock is held), and the final release
\* puts it back to the 1 the acquire found.
C30_ReleaseFrame ==
    /\ [][\A a \in Agents :
            (pc[a] = "rel" /\ lockCount[a] >= 1 /\ pc'[a] # pc[a]) =>
                IF lockCount[a] > 1
                THEN /\ lockCount'[a] = lockCount[a] - 1
                     /\ cell' = cell
                     /\ lockWaiters' = lockWaiters
                     /\ \A b \in Agents \ {a} : pc'[b] = pc[b]
                ELSE /\ cell = 0 /\ cell' = cell + 1
                     /\ lockWaiters' = lockWaiters
                     /\ pc'[a] = "notify"]_vars
    /\ [][\A a \in Agents :
            (pc[a] = "notify" /\ pc'[a] # pc[a]) =>
                /\ cell' = cell
                /\ lockCount[a] = 1 /\ lockCount'[a] = 0
                /\ IF lockWaiters = <<>>
                   THEN lockWaiters' = <<>>
                   ELSE /\ lockWaiters' = Tail(lockWaiters)
                        /\ pc'[Head(lockWaiters)] = "load"]_vars
    /\ [][\A a \in Agents :
            (lockCount[a] >= 1 /\ pc'[a] # pc[a] /\ cell' # cell) =>
                (pc[a] = "rel" /\ lockCount[a] = 1)]_vars
    /\ [](\A a \in Agents :
            /\ (InHold(a) /\ ~PastFinalAdd(a)) => cell = 0
            /\ (AtExit(a) /\ Top(a).lc >= 1) => cell = Top(a).cell)

\* C30 witness: a holder has left a nested release with its counter back at
\* 1, the cell still at 0, while another agent is suspended on the cell.
C30_Witness ==
    \E a, b \in Agents :
        /\ a # b
        /\ pc[a] = "exit" /\ Len(frames[a]) = 2 /\ lockCount[a] = 1
        /\ cell = 0
        /\ pc[b] = "blocked"

\* The agent is neither holding the lock nor executing acquire or release.
Idle(a) == pc[a] = "idle" /\ lockCount[a] = 0

\* The agent is suspended in acquire()'s Atomics.wait.
Suspended(a) == pc[a] = "blocked"

\* C31: under weak fairness of every agent's steps, the workload of NumAgents
\* agents doing MaxRounds acquire/increment/release rounds each terminates:
\* every acquire() entered eventually returns, and all agents end up finished,
\* none left suspended in acquire()'s wait.
C31_WorkloadTerminates ==
    /\ <>[]AllFinished
    /\ \A a \in Agents : (pc[a] = "acq") ~> (pc[a] = "body")

\* C32: no lost wake-up. In no reachable state is the cell above 0 (the lock
\* free) with an agent suspended in acquire()'s wait and every other agent
\* idle; and acquire() goes to sleep only on an expected value <= 0.
C32_NoLostWakeup ==
    /\ \A a \in Agents :
          ~(/\ cell > 0
            /\ Suspended(a)
            /\ \A b \in Agents \ {a} : Idle(b))
    /\ \A a \in Agents : Suspended(a) => val[a] <= 0

\* The agents that have succeeded in acquire()'s compare-exchange and have not
\* yet executed the Atomics.add of their final release().
Holders == {a \in Agents : InHold(a) /\ ~PastFinalAdd(a)}

\* C33: conservation. With release() called only to match the caller's own
\* acquire(), the cell plus the number of agents between their successful
\* compare-exchange and the Atomics.add of their final release() is 1 in
\* every reachable state: the cell is 0 or 1, and 1 exactly when no agent
\* holds the lock.
C33_Conservation ==
    /\ cell + Cardinality(Holders) = 1
    /\ cell \in {0, 1}
    /\ cell = 1 <=> Holders = {}

\* C33 witness: one agent holds the lock at nesting depth 2 (one unit taken
\* out of the cell, not two) while another, which held it before, is between
\* the Atomics.add and the notify of its final release.
C33_Witness ==
    \E a, b \in Agents :
        /\ a # b
        /\ lockCount[a] = 2 /\ a \in Holders
        /\ pc[b] = "notify" /\ lockCount[b] = 1
        /\ cell = 0

\* C34: for any sequence of acquire() and release() calls by any agents,
\* release() by an agent whose lockCount is 0 included, the cell never
\* exceeds 1 and at most one agent at a time holds the lock.
C34_StrictMutex ==
    /\ cell <= 1
    /\ Cardinality(Holders) <= 1

\* The agent holds the lock through one of its Lock objects: it is past a
\* successful compare-exchange of acquire() on that object.
HoldsThroughAny(a) ==
    \/ lockCount[a] > 0
    \/ other[a] # <<>> /\ other[a][1] > 0

\* C35: reentrancy is per agent. An agent that holds the lock and calls
\* acquire() again, on the same Lock object or on a second Lock object it
\* created over the same range, returns without blocking: it is never
\* suspended in acquire()'s wait while it holds the lock.
C35_ReentrantPerAgent ==
    \A a \in Agents : HoldsThroughAny(a) => ~Suspended(a)

\* The constructor call got a MemoryRange, in existing mode or with no context.
Attaches(c) == c.made /\ ~c.isMemory /\ c.mode # "new"

\* C36: attaching never re-initialises. Constructing a Lock or a Signal over
\* a MemoryRange in existing mode, or with no context, writes nothing to the
\* shared cell: a lock held by another agent stays held (the cell and every
\* other agent's lockCount are as before), a resolved signal stays resolved.
\* A constructor stores into its cell only when it was given a SharedMemory
\* or the context mode is new, and the shared cells are written by a
\* construction only in mode new.
C36_AttachNeverReinitialises ==
    /\ [](\A class \in {"Lock", "Signal"} :
            ctor[class].made =>
                (ctor[class].stored <=> (ctor[class].isMemory \/ ctor[class].mode = "new")))
    /\ [][(ctor'.Lock # ctor.Lock /\ Attaches(ctor'.Lock)) =>
            /\ cell' = cell /\ sig' = sig /\ lockWaiters' = lockWaiters
            /\ cell' = ctor'.Lock.found
            /\ \A a \in Agents : lockCount[a] > 0 =>
                  \/ lockCount'[a] = lockCount[a]
                  \/ other'[a] = <<lockCount[a]>>]_vars
    /\ [][(ctor'.Signal # ctor.Signal /\ Attaches(ctor'.Signal)) =>
            /\ sig' = sig /\ cell' = cell /\ sigWaiters' = sigWaiters
            /\ sig' = ctor'.Signal.found]_vars
    /\ [][(ctor' # ctor /\ (cell' # cell \/ sig' # sig)) =>
            \/ ctor'.Lock # ctor.Lock /\ ctor'.Lock.mode = "new" /\ cell' = 1 /\ sig' = sig
            \/ ctor'.Signal # ctor.Signal /\ ctor'.Signal.mode = "new" /\ sig' = 0
                 /\ cell' = cell]_vars

\* C36 witness: the last Lock was constructed over a range in existing mode
\* while the cell was 0, and the agent that held the lock then (it has one
\* Lock object only) holds it still; the last Signal was constructed over a
\* range with no context while the cell was 1, and the signal is resolved
\* still.
C36_Witness ==
    /\ Attaches(ctor.Lock) /\ ctor.Lock.mode = "existing" /\ ctor.Lock.found = 0
    /\ cell = 0
    /\ \E a, b \in Agents :
          /\ a # b
          /\ other[a] # <<>> /\ other[a] = <<0>> /\ lockCount[a] = 0
          /\ other[b] = <<>> /\ lockCount[b] = 1 /\ pc[b] = "body"
    /\ Attaches(ctor.Signal) /\ ctor.Signal.mode = "none" /\ ctor.Signal.found = 1
    /\ sig = 1

\* C37: a "timed-out" outcome of the atomic wait is fatal at every wait site:
\* Lock.acquire, Signal.wait and the synchronous and asynchronous paths of
\* Signal.waitAsync raise an error on it; it is neither ignored nor followed
\* by a retry.
C37_TimedOutIsFatal ==
    /\ [][\A a \in Agents :
            (pc[a] = "timedout" /\ pc'[a] # pc[a]) => (exc'[a] /\ pc'[a] = "exit")]_vars
    /\ [][\A a \in SigAgents :
            (sres[a] = "timed-out" /\ spc'[a] # spc[a]) => spc'[a] = "raised"]_vars
    /\ [][\A a \in SigAgents :
            (prom[a] = "timedout" /\ prom'[a] # prom[a]) => prom'[a] = "rejected"]_vars

\* The exports of the arena's module that allocate or free.
AllocatorExports == {"malloc", "free", "aligned_alloc"}

\* C38: preAllocated(ptr, size) and readonly(ptr, size) call no allocator
\* export (malloc, free, aligned_alloc) and modify no byte of the buffer,
\* whether they return a range or raise the bounds error.
C38_WrapNeverAllocatesOrWrites ==
    /\ [](res.op \in {"preAllocated", "readonly"} =>
            /\ IsRange(res.out) \/ res.out.kind = "MemoryError"
            /\ \A i \in 1 .. Len(res.calls) : res.calls[i] \notin AllocatorExports)
    /\ [][res'.op \in {"preAllocated", "readonly"} =>
            mem' = mem /\ nAllocs' = nAllocs]_vars

\* C38 witness: readonly has returned a range that covers bytes an earlier
\* allocation has cleared and bytes still as they were.
C38_Witness ==
    /\ res.op = "readonly"
    /\ IsRange(res.out)
    /\ \E i, j \in Addresses :
          /\ res.out.ptr <= i /\ i < res.out.ptr + res.out.size
          /\ res.out.ptr <= j /\ j < res.out.ptr + res.out.size
          /\ mem[i] = 0 /\ mem[j] = 255

\* The step leaves the Lock as it is: the cell, every agent's lockCount and
\* position, the waiters.
LockUntouched ==
    /\ cell' = cell
    /\ lockCount' = lockCount
    /\ lockWaiters' = lockWaiters
    /\ pc' = pc
    /\ net' = net

================================================================================
